---- MODULE Spec2Model ----
(***************************************************************************)
(* rttui: the ping measurement and history engine.                         *)
(*                                                                         *)
(*   SpecUdp  - one UDP client session (src/ping/udp.rs): the sender loop,  *)
(*              the receiver task and the timeout checker task, with the   *)
(*              pending-table mutex and the prev_rtt mutex, over a clock   *)
(*              whose unit is 50 ms.                                       *)
(*   Spec     - the consumer (src/main.rs, src/ui/app.rs): the pinger      *)
(*              sessions, the result channel, run_app's event/drain loop,  *)
(*              the history ring and main's restart branch.                *)
(***************************************************************************)
EXTENDS Integers, Sequences, FiniteSets, TLC

(* ------------------------------ bounds ------------------------------ *)

\* probes one UDP session sends before the sender loop is stopped
MaxSeq == 2
\* configured timeout_ms, in units of 50 ms
TimeoutTicks == 3
\* configured interval_ms, in units of 50 ms
IntervalTicks == 2
\* the timeout checker's period, interval(Duration::from_millis(100)), in units of 50 ms
CheckTicks == 2

\* ticks one ICMP session makes before its tick loop is stopped
MaxProbes == 3
\* the round-trip times a reply can have
RttValues == {1}
\* largest buffer size (MB) entered in the settings
MaxBufferMb == 2
\* bytes in one unit of buffer size (1024 * 1024 in Config::max_history)
MbBytes == 48
\* widths and heights of the graph area
MaxWidth == 3
MaxHeight == 3
\* pinger sessions main starts (one more than the restarts)
MaxSessions == 3
\* ticks the sessions main starts make in total
MaxTicks == 2
\* results PingStats::record is applied to in a row
MaxRecords == 5
\* the number of values of the u32 that avg_rtt narrows the u64 counter to
\* (2^32 in the source; the u64 counter itself stays below MaxRecords + 1)
NarrowMod == 4
\* the values 0..MaxCfg of the numeric command-line options
MaxCfg == 1
\* the history length and the evictions result_at_position is applied to
MaxLen == 3
MaxBase == 3

\* Option<T>: None is the empty sequence, Some(x) the one-element sequence
None == <<>>
Some(x) == <<x>>
IsSome(o) == o # <<>>
Unwrap(o) == o[1]

AbsDiff(a, b) == IF a >= b THEN a - b ELSE b - a

(* --------------------------- PingResult ------------------------------ *)

\* PingResult::success(seq, rtt, sent_at, prev_rtt)
\* PingResult::success with jitter: None
PingResult_success_no_jitter(s, rtt, prev) == [seq |-> s, rtt |-> Some(rtt), jitter |-> None]

PingResult_success(s, rtt, prev) ==
    [seq |-> s, rtt |-> Some(rtt),
     jitter |-> IF IsSome(prev) THEN Some(AbsDiff(rtt, Unwrap(prev))) ELSE None]

\* PingResult::success with received_at: None
PingResult_success_full_no_received(s, rtt, sent_at, prev_rtt, now) == PingResult_success(s, rtt, prev_rtt) @@ [sent_at |-> sent_at, received_at |-> None]

\* PingResult::success(seq, rtt, sent_at, prev_rtt) with every field but the
\* wall-clock timestamp; now is the value of Instant::now()
PingResult_success_full(s, rtt, sent_at, prev_rtt, now) ==
    PingResult_success(s, rtt, prev_rtt) @@ [sent_at |-> sent_at, received_at |-> Some(now)]

\* PingResult::timeout(seq, sent_at)
PingResult_timeout(s) == [seq |-> s, rtt |-> None, jitter |-> None]

\* PingResult::timeout(seq, sent_at) with every field but the timestamp
PingResult_timeout_full(s, sent_at) ==
    PingResult_timeout(s) @@ [sent_at |-> sent_at, received_at |-> None]

(* ------------------------- UDP client session ------------------------ *)

VARIABLES
    pcS,          \* sender loop: "bind","connect","tick","lock","insert","send","failed"
    pcR,          \* receiver task: "off","recv","lock","prev","finish","send"
    pcW,          \* timeout checker: "off","tick","lock","loop","prev","emit","send"
    seq,          \* the sender's sequence counter
    pending,      \* HashMap<u64, Instant>: seq -> time elapsed since sent_at
    prev_rtt,     \* Option<Duration>
    pendingLock,  \* holder of the pending mutex: "free","S","R","W"
    prevLock,     \* holder of the prev_rtt mutex: "free","R","W"
    sendTimer,    \* time until the sender's ticker fires
    sweepTimer,   \* time until the checker's check_interval fires
    rloc,         \* receiver locals: seq, rtt of the datagram in hand; the prev
                  \* read from the slot; its outcome; and how long its probe
                  \* had waited when it arrived (history)
    wloc,         \* checker locals: timed_out, the (seq, sent_at) of the iteration
    wire,         \* sequence numbers transmitted on the socket
    chan          \* results sent on tx, in order

udpVars == <<pcS, pcR, pcW, seq, pending, prev_rtt, pendingLock, prevLock,
             sendTimer, sweepTimer, rloc, wloc, wire, chan>>

\* the consumer's state (declared here; its operations follow the UDP session)
VARIABLES
    app,          \* ui::app::App
    sess,         \* the pinger sessions started so far and their tasks
    queue,        \* the unbounded channel main holds the receiver of
    main,         \* main's locals and control point
    hist,         \* history of the calls made on app (read by properties only)
    call          \* the arguments and the value of a function applied on its own

mainVars == <<app, sess, queue, main, hist, call>>

vars == <<udpVars, mainVars>>

PendingRemoveKeep(p, n) == p
\* HashMap::remove
PendingRemove(p, n) == [k \in DOMAIN p \ {n} |-> p[k]]

\* HashMap::insert
PendingInsert(p, n, age) == [k \in DOMAIN p \cup {n} |-> IF k = n THEN age ELSE p[k]]

UdpInit ==
    /\ pcS = "bind" /\ pcR = "off" /\ pcW = "off"
    /\ seq = 0
    /\ pending = <<>>
    /\ prev_rtt = None
    /\ pendingLock = "free" /\ prevLock = "free"
    /\ sendTimer = 0 /\ sweepTimer = 0
    /\ rloc = [seq |-> 0, rtt |-> 0, prev |-> None, last |-> "none", arrived |-> 0]
    /\ wloc = [timed_out |-> {}, cur |-> 0]
    /\ wire = {}
    /\ chan = <<>>


(* socket setup, lines 61-77 *)
SBindOk ==
    /\ pcS = "bind"
    /\ pcS' = "connect"
    /\ UNCHANGED <<pcR, pcW, seq, pending, prev_rtt, pendingLock, prevLock,
                   sendTimer, sweepTimer, rloc, wloc, wire, chan, mainVars>>

SBindErr ==
    /\ pcS = "bind"
    /\ pcS' = "failed"
    /\ UNCHANGED <<pcR, pcW, seq, pending, prev_rtt, pendingLock, prevLock,
                   sendTimer, sweepTimer, rloc, wloc, wire, chan, mainVars>>

\* connect succeeded: the receiver and the checker are spawned, the send loop starts
SConnectOk ==
    /\ pcS = "connect"
    /\ pcS' = "tick" /\ pcR' = "recv" /\ pcW' = "tick"
    /\ UNCHANGED <<seq, pending, prev_rtt, pendingLock, prevLock,
                   sendTimer, sweepTimer, rloc, wloc, wire, chan, mainVars>>

\* a failed connect that still spawns the receiver and the checker
SConnectErrSpawns ==
    /\ pcS = "connect"
    /\ pcS' = "failed" /\ pcR' = "recv" /\ pcW' = "tick"
    /\ UNCHANGED <<seq, pending, prev_rtt, pendingLock, prevLock,
                   sendTimer, sweepTimer, rloc, wloc, wire, chan, mainVars>>

SConnectErr ==
    /\ pcS = "connect"
    /\ pcS' = "failed"
    /\ UNCHANGED <<pcR, pcW, seq, pending, prev_rtt, pendingLock, prevLock,
                   sendTimer, sweepTimer, rloc, wloc, wire, chan, mainVars>>

(* main send loop, lines 154-170 *)
\* a send loop that transmits the packet as soon as it is encoded
STickTransmits ==
    /\ pcS = "tick" /\ sendTimer = 0 /\ seq < MaxSeq
    /\ seq' = seq + 1
    /\ wire' = wire \cup {seq + 1}
    /\ sendTimer' = IntervalTicks
    /\ pcS' = "lock"
    /\ UNCHANGED <<pcR, pcW, pending, prev_rtt, pendingLock, prevLock,
                   sweepTimer, rloc, wloc, chan, mainVars>>

\* ticker.tick().await; seq += 1; sent_at = Instant::now(); encode_packet
STick ==
    /\ pcS = "tick" /\ sendTimer = 0 /\ seq < MaxSeq
    /\ seq' = seq + 1
    /\ sendTimer' = IntervalTicks
    /\ pcS' = "lock"
    /\ UNCHANGED <<pcR, pcW, pending, prev_rtt, pendingLock, prevLock,
                   sweepTimer, rloc, wloc, wire, chan, mainVars>>

\* pending.lock().await
SLock ==
    /\ pcS = "lock" /\ pendingLock = "free"
    /\ pendingLock' = "S"
    /\ pcS' = "insert"
    /\ UNCHANGED <<pcR, pcW, seq, pending, prev_rtt, prevLock,
                   sendTimer, sweepTimer, rloc, wloc, wire, chan, mainVars>>

\* pending.insert(seq, sent_at); the guard is dropped at the end of the block
SInsert ==
    /\ pcS = "insert"
    /\ pending' = PendingInsert(pending, seq, 0)
    /\ pendingLock' = "free"
    /\ pcS' = "send"
    /\ UNCHANGED <<pcR, pcW, seq, prev_rtt, prevLock,
                   sendTimer, sweepTimer, rloc, wloc, wire, chan, mainVars>>

\* a send loop that a failed socket.send ends
SSendErrReturns ==
    /\ pcS = "send"
    /\ \E ok \in BOOLEAN :
          /\ wire' = IF ok THEN wire \cup {seq} ELSE wire
          /\ pcS' = IF ok THEN "tick" ELSE "failed"
    /\ UNCHANGED <<pcR, pcW, seq, pending, prev_rtt, pendingLock, prevLock,
                   sendTimer, sweepTimer, rloc, wloc, chan, mainVars>>

\* socket.send(&packet).await: Ok puts the packet on the wire, Err only logs
SSend ==
    /\ pcS = "send"
    /\ \E ok \in BOOLEAN : wire' = IF ok THEN wire \cup {seq} ELSE wire
    /\ pcS' = "tick"
    /\ UNCHANGED <<pcR, pcW, seq, pending, prev_rtt, pendingLock, prevLock,
                   sendTimer, sweepTimer, rloc, wloc, chan, mainVars>>

(* receiver task, lines 93-124 *)
\* socket_recv.recv(&mut buf).await returned Ok(len) and decode_packet gave
\* Some((n, _)): any sequence number may arrive, any number of times, in any order
RRecv ==
    /\ pcR = "recv"
    /\ \E n \in 0..MaxSeq :
          rloc' = [seq |-> n, rtt |-> 0, prev |-> None, last |-> "none",
                   arrived |-> IF n \in DOMAIN pending THEN pending[n] ELSE 0]
    /\ pcR' = "lock"
    /\ UNCHANGED <<pcS, pcW, seq, pending, prev_rtt, pendingLock, prevLock,
                   sendTimer, sweepTimer, wloc, wire, chan, mainVars>>

\* recv returned Err (logged unless it is WSAECONNRESET), or the datagram did not
\* decode: the loop goes round
RRecvNothing ==
    /\ pcR = "recv"
    /\ rloc' = [rloc EXCEPT !.last = "none"]
    /\ UNCHANGED <<pcS, pcR, pcW, seq, pending, prev_rtt, pendingLock, prevLock,
                   sendTimer, sweepTimer, wloc, wire, chan, mainVars>>

\* a receiver that drops the pending guard right after the remove
RLockRemoveUnlocked ==
    /\ pcR = "lock" /\ pendingLock = "free"
    /\ IF rloc.seq \in DOMAIN pending
         THEN /\ pending' = PendingRemove(pending, rloc.seq)
              /\ rloc' = [rloc EXCEPT !.rtt = pending[rloc.seq]]
              /\ pcR' = "prev"
         ELSE /\ rloc' = [rloc EXCEPT !.last =
                             IF \E i \in DOMAIN chan : chan[i].seq = rloc.seq
                             THEN "dropped_resolved" ELSE "dropped_unknown"]
              /\ pcR' = "recv"
              /\ UNCHANGED pending
    /\ UNCHANGED <<pcS, pcW, seq, prev_rtt, pendingLock, prevLock,
                   sendTimer, sweepTimer, wloc, wire, chan, mainVars>>

\* pending_recv.lock().await; pending.remove(&seq): an entry found gives
\* rtt = sent_at.elapsed() and the lock stays held; none found drops the guard
RLockRemove ==
    /\ pcR = "lock" /\ pendingLock = "free"
    /\ IF rloc.seq \in DOMAIN pending
         THEN /\ pending' = PendingRemove(pending, rloc.seq)
              /\ rloc' = [rloc EXCEPT !.rtt = pending[rloc.seq]]
              /\ pendingLock' = "R"
              /\ pcR' = "prev"
         ELSE /\ rloc' = [rloc EXCEPT !.last =
                             IF \E i \in DOMAIN chan : chan[i].seq = rloc.seq
                             THEN "dropped_resolved" ELSE "dropped_unknown"]
              /\ pcR' = "recv"
              /\ UNCHANGED <<pending, pendingLock>>
    /\ UNCHANGED <<pcS, pcW, seq, prev_rtt, prevLock,
                   sendTimer, sweepTimer, wloc, wire, chan, mainVars>>

\* prev_rtt_recv.lock().await
RLockPrev ==
    /\ pcR = "prev" /\ prevLock = "free"
    /\ prevLock' = "R"
    /\ pcR' = "finish"
    /\ UNCHANGED <<pcS, pcW, seq, pending, prev_rtt, pendingLock,
                   sendTimer, sweepTimer, rloc, wloc, wire, chan, mainVars>>

\* the block of lines 102-107 with the guard held: prev = *guard;
\* *guard = Some(rtt); the prev_rtt guard is dropped at the end of the block
RSwap ==
    /\ pcR = "finish"
    /\ rloc' = [rloc EXCEPT !.prev = prev_rtt]
    /\ prev_rtt' = Some(rloc.rtt)
    /\ prevLock' = "free"
    /\ pcR' = "send"
    /\ UNCHANGED <<pcS, pcW, seq, pending, pendingLock,
                   sendTimer, sweepTimer, wloc, wire, chan, mainVars>>

\* RFinish without the drop of the pending guard
RFinishKeepsPending ==
    /\ pcR = "send"
    /\ chan' = Append(chan, PingResult_success(rloc.seq, rloc.rtt, rloc.prev))
    /\ rloc' = [rloc EXCEPT !.last = "success", !.prev = None]
    /\ pcR' = "recv"
    /\ UNCHANGED <<pcS, pcW, seq, pending, prev_rtt, pendingLock, prevLock,
                   sendTimer, sweepTimer, wloc, wire, mainVars>>

\* tx_recv.send(PingResult::success(seq, rtt, sent_at, prev)); the pending
\* guard is dropped at the end of the if-let
RFinish ==
    /\ pcR = "send"
    /\ chan' = Append(chan, PingResult_success(rloc.seq, rloc.rtt, rloc.prev))
    /\ pendingLock' = "free"
    /\ rloc' = [rloc EXCEPT !.last = "success", !.prev = None]
    /\ pcR' = "recv"
    /\ UNCHANGED <<pcS, pcW, seq, pending, prev_rtt, prevLock,
                   sendTimer, sweepTimer, wloc, wire, mainVars>>

(* timeout checker task, lines 132-151 *)
\* check_interval.tick().await; now = Instant::now()
WTick ==
    /\ pcW = "tick" /\ sweepTimer = 0
    /\ sweepTimer' = CheckTicks
    /\ wloc' = [timed_out |-> {}, cur |-> 0]
    /\ pcW' = "lock"
    /\ UNCHANGED <<pcS, pcR, seq, pending, prev_rtt, pendingLock, prevLock,
                   sendTimer, rloc, wire, chan, mainVars>>

\* the filter of line 140: now.duration_since(sent_at) > timeout_duration
TimedOut(age) == age > TimeoutTicks

\* pending_timeout.lock().await; timed_out = pending.iter().filter(..).collect()
WLockScan ==
    /\ pcW = "lock" /\ pendingLock = "free"
    /\ pendingLock' = "W"
    /\ wloc' = [wloc EXCEPT
                   !.timed_out = {n \in DOMAIN pending : TimedOut(pending[n])}]
    /\ pcW' = "loop"
    /\ UNCHANGED <<pcS, pcR, seq, pending, prev_rtt, prevLock,
                   sendTimer, sweepTimer, rloc, wire, chan, mainVars>>

\* the next (seq, sent_at) of the for loop, in the map's iteration order:
\* pending.remove(&seq)
WRemove ==
    /\ pcW = "loop"
    /\ \E n \in wloc.timed_out :
          /\ pending' = PendingRemove(pending, n)
          /\ wloc' = [wloc EXCEPT !.timed_out = @ \ {n}, !.cur = n]
    /\ pcW' = "prev"
    /\ UNCHANGED <<pcS, pcR, seq, prev_rtt, pendingLock, prevLock,
                   sendTimer, sweepTimer, rloc, wire, chan, mainVars>>

\* prev_rtt_timeout.lock().await
WLockPrev ==
    /\ pcW = "prev" /\ prevLock = "free"
    /\ prevLock' = "W"
    /\ pcW' = "emit"
    /\ UNCHANGED <<pcS, pcR, seq, pending, prev_rtt, pendingLock,
                   sendTimer, sweepTimer, rloc, wloc, wire, chan, mainVars>>

\* *guard = None; the temporary guard is dropped at the end of the statement
WClear ==
    /\ pcW = "emit"
    /\ prev_rtt' = None
    /\ prevLock' = "free"
    /\ pcW' = "send"
    /\ UNCHANGED <<pcS, pcR, seq, pending, pendingLock,
                   sendTimer, sweepTimer, rloc, wloc, wire, chan, mainVars>>

\* tx_timeout.send(PingResult::timeout(seq, sent_at))
WEmit ==
    /\ pcW = "send"
    /\ chan' = Append(chan, PingResult_timeout(wloc.cur))
    /\ pcW' = "loop"
    /\ UNCHANGED <<pcS, pcR, seq, pending, prev_rtt, pendingLock, prevLock,
                   sendTimer, sweepTimer, rloc, wloc, wire, mainVars>>

\* the for loop is over: the pending guard is dropped at the end of the iteration
WDone ==
    /\ pcW = "loop" /\ wloc.timed_out = {}
    /\ pendingLock' = "free"
    /\ pcW' = "tick"
    /\ UNCHANGED <<pcS, pcR, seq, pending, prev_rtt, prevLock,
                   sendTimer, sweepTimer, rloc, wloc, wire, chan, mainVars>>

(* the clock *)
Dec(t) == IF t > 0 THEN t - 1 ELSE 0

\* One unit of time passes while every task waits for its timer or for the
\* socket (the tasks' own steps take no time); a timer that is due fires first.
Tick ==
    /\ pcS = "tick" /\ pcR = "recv" /\ pcW = "tick"
    /\ ~(sendTimer = 0 /\ seq < MaxSeq)
    /\ sweepTimer > 0
    /\ sendTimer' = Dec(sendTimer)
    /\ sweepTimer' = Dec(sweepTimer)
    /\ pending' = [n \in DOMAIN pending |-> pending[n] + 1]
    /\ UNCHANGED <<pcS, pcR, pcW, seq, prev_rtt, pendingLock, prevLock,
                   rloc, wloc, wire, chan, mainVars>>

UdpNext ==
    \/ SBindOk \/ SBindErr \/ SConnectOk \/ SConnectErr
    \/ STick \/ SLock \/ SInsert \/ SSend
    \/ RRecv \/ RRecvNothing \/ RLockRemove \/ RLockPrev \/ RSwap \/ RFinish
    \/ WTick \/ WLockScan \/ WRemove \/ WLockPrev \/ WClear \/ WEmit \/ WDone
    \/ Tick

\* the consumer is not part of the UDP session's specification
MainIdle ==
    /\ app = 0 /\ sess = 0 /\ queue = 0 /\ main = 0 /\ hist = 0 /\ call = 0

InitUdp == UdpInit /\ MainIdle

SpecUdp == InitUdp /\ [][UdpNext]_vars

\* The scheduling of the session: tokio's Mutex hands the lock to its
\* waiters in turn, so a task that waits for the pending lock, which is free
\* again and again, gets it (strong fairness of its acquisitions); a task
\* that can run is run (weak fairness of the steps made while holding it).
UdpFairness ==
    /\ SF_vars(SLock) /\ SF_vars(RLockRemove) /\ SF_vars(WLockScan)
    /\ WF_vars(RLockPrev) /\ WF_vars(WLockPrev)
    /\ WF_vars(SInsert) /\ WF_vars(RSwap) /\ WF_vars(RFinish)
    /\ WF_vars(WRemove) /\ WF_vars(WClear) /\ WF_vars(WEmit) /\ WF_vars(WDone)

SpecUdpFair == InitUdp /\ [][UdpNext]_vars /\ UdpFairness

\* Time passes, however busy the receiver is, and the tickers and the socket
\* send complete: the interval of the send loop and the check_interval of
\* the checker fire when they are due.
ClockFairness ==
    /\ SF_vars(Tick) /\ WF_vars(STick) /\ WF_vars(SSend) /\ WF_vars(WTick)

SpecUdpLive == InitUdp /\ [][UdpNext]_vars /\ UdpFairness /\ ClockFairness

(* ------------------------------ PingStats ---------------------------- *)

Min(a, b) == IF a <= b THEN a ELSE b
Max(a, b) == IF a >= b THEN a ELSE b

\* PingStats::new
PingStats_new ==
    [total_sent |-> 0, total_received |-> 0, total_lost |-> 0,
     min_rtt |-> None, max_rtt |-> None, sum_rtt |-> 0]

\* PingStats::record with the else branch left out
PingStats_record_no_lost(st, result) ==
    IF IsSome(result.rtt)
    THEN LET rtt == Unwrap(result.rtt) IN
         [st EXCEPT !.total_sent = @ + 1,
                    !.total_received = @ + 1,
                    !.sum_rtt = @ + rtt,
                    !.min_rtt = Some(IF IsSome(@) THEN Min(Unwrap(@), rtt) ELSE rtt),
                    !.max_rtt = Some(IF IsSome(@) THEN Max(Unwrap(@), rtt) ELSE rtt)]
    ELSE [st EXCEPT !.total_sent = @ + 1]

\* PingStats::record
PingStats_record(st, result) ==
    IF IsSome(result.rtt)
    THEN LET rtt == Unwrap(result.rtt) IN
         [st EXCEPT !.total_sent = @ + 1,
                    !.total_received = @ + 1,
                    !.sum_rtt = @ + rtt,
                    !.min_rtt = Some(IF IsSome(@) THEN Min(Unwrap(@), rtt) ELSE rtt),
                    !.max_rtt = Some(IF IsSome(@) THEN Max(Unwrap(@), rtt) ELSE rtt)]
    ELSE [st EXCEPT !.total_sent = @ + 1, !.total_lost = @ + 1]

\* PingStats::avg_rtt: sum_rtt / (total_received as u32); the cast keeps the
\* low bits of the counter, and Duration / 0 panics
avg_rtt(st) ==
    IF st.total_received > 0
    THEN LET divisor == st.total_received % NarrowMod
         IN IF divisor = 0
            THEN [panic |-> TRUE, value |-> None]
            ELSE [panic |-> FALSE, value |-> Some(st.sum_rtt \div divisor)]
    ELSE [panic |-> FALSE, value |-> None]

\* PingStats::loss_percent: (total_lost as f64 / total_sent as f64) * 100.0,
\* as the fraction <<numerator, denominator>>; 0.0 is <<0, 1>>
loss_percent(st) ==
    IF st.total_sent > 0 THEN <<st.total_lost * 100, st.total_sent>> ELSE <<0, 1>>

(* ------------------------------- Config ------------------------------ *)

BYTES_PER_RESULT == 48

\* Config::validate: "Ok", or the message of the first check that fails
Config_validate(cfg) ==
    IF cfg.interval = 0 THEN "Interval must be greater than 0"
    ELSE IF cfg.timeout = 0 THEN "Timeout must be greater than 0"
    ELSE IF cfg.scale = 0 THEN "Scale must be greater than 0"
    ELSE IF cfg.buffer_mb = 0 THEN "Buffer size must be greater than 0"
    ELSE "Ok"

\* Config::max_history
Config_max_history(cfg) == (cfg.buffer_mb * MbBytes) \div BYTES_PER_RESULT

(* --------------------------------- App ------------------------------- *)

MAX_RECENT_RTT_COUNT == 500

\* App::new
App_new(cfg) ==
    [config |-> cfg,
     stats |-> PingStats_new,
     results |-> <<>>,
     max_history |-> Config_max_history(cfg),
     result_base_seq |-> 0,
     recent_rtts |-> <<>>,
     paused |-> FALSE,
     view_end_row |-> None,
     popup |-> None,
     graph_area |-> None,
     settings_open |-> FALSE,
     settings_target |-> IF IsSome(cfg.host) THEN Unwrap(cfg.host) ELSE "",
     settings_interval |-> cfg.interval,
     settings_buffer_mb |-> cfg.buffer_mb,
     needs_pinger_restart |-> FALSE,
     new_target |-> None,
     new_interval |-> None]

\* the last n elements of q (all of q when it has fewer)
LastN(q, n) == IF Len(q) <= n THEN q ELSE SubSeq(q, Len(q) - n + 1, Len(q))

\* record_result with the eviction loop running one result late
record_result_late(a, result) ==
    LET pushed == Append(a.results, result)
        over == IF Len(pushed) > a.max_history + 1
                THEN Len(pushed) - (a.max_history + 1) ELSE 0
    IN [a EXCEPT !.stats = PingStats_record(@, result),
                 !.recent_rtts = LastN(Append(@, result.rtt), MAX_RECENT_RTT_COUNT),
                 !.results = SubSeq(pushed, over + 1, Len(pushed)),
                 !.result_base_seq = @ + over]

\* record_result with pop_back in place of pop_front
record_result_pop_back(a, result) ==
    LET pushed == Append(a.results, result)
        over == IF Len(pushed) > a.max_history THEN Len(pushed) - a.max_history ELSE 0
    IN [a EXCEPT !.stats = PingStats_record(@, result),
                 !.recent_rtts = LastN(Append(@, result.rtt), MAX_RECENT_RTT_COUNT),
                 !.results = SubSeq(pushed, 1, Len(pushed) - over),
                 !.result_base_seq = @ + over]

\* record_result without the increment of result_base_seq
record_result_no_shift(a, result) ==
    LET pushed == Append(a.results, result)
        over == IF Len(pushed) > a.max_history THEN Len(pushed) - a.max_history ELSE 0
    IN [a EXCEPT !.stats = PingStats_record(@, result),
                 !.recent_rtts = LastN(Append(@, result.rtt), MAX_RECENT_RTT_COUNT),
                 !.results = SubSeq(pushed, over + 1, Len(pushed))]

\* record_result with push_front in place of push_back
record_result_push_front(a, result) ==
    LET pushed == <<result>> \o a.results
        over == IF Len(pushed) > a.max_history THEN Len(pushed) - a.max_history ELSE 0
    IN [a EXCEPT !.stats = PingStats_record(@, result),
                 !.recent_rtts = LastN(Append(@, result.rtt), MAX_RECENT_RTT_COUNT),
                 !.results = SubSeq(pushed, over + 1, Len(pushed)),
                 !.result_base_seq = @ + over]

\* App::record_result
record_result(a, result) ==
    LET pushed == Append(a.results, result)
        over == IF Len(pushed) > a.max_history THEN Len(pushed) - a.max_history ELSE 0
    IN [a EXCEPT !.stats = PingStats_record(@, result),
                 !.recent_rtts = LastN(Append(@, result.rtt), MAX_RECENT_RTT_COUNT),
                 !.results = SubSeq(pushed, over + 1, Len(pushed)),
                 !.result_base_seq = @ + over]

\* clear_all_data without the reset of result_base_seq
clear_all_data_keeps_base(a) ==
    [a EXCEPT !.stats = PingStats_new,
              !.results = <<>>,
              !.recent_rtts = <<>>,
              !.view_end_row = None,
              !.popup = None]

\* App::clear_all_data
clear_all_data(a) ==
    [a EXCEPT !.stats = PingStats_new,
              !.results = <<>>,
              !.recent_rtts = <<>>,
              !.result_base_seq = 0,
              !.view_end_row = None,
              !.popup = None]

\* usize::div_ceil
DivCeil(n, d) == (n + d - 1) \div d

\* total_rows counting only the retained results
total_rows_unshifted(a, width) == IF width = 0 \/ a.results = <<>> THEN 0 ELSE DivCeil(Len(a.results), width)

\* App::total_rows
total_rows(a, width) ==
    IF width = 0 \/ a.results = <<>>
    THEN 0
    ELSE DivCeil(a.result_base_seq + Len(a.results), width)

\* App::toggle_pause
toggle_pause(a) ==
    LET p == ~a.paused IN
    [a EXCEPT !.paused = p, !.view_end_row = IF ~p THEN None ELSE @]

\* usize::saturating_sub
SatSub(a, b) == IF a >= b THEN a - b ELSE 0

\* App::scroll_up
scroll_up(a, rows) ==
    IF IsSome(a.graph_area)
    THEN LET width == Unwrap(a.graph_area).width
             tr == total_rows(a, width)
             current_end == IF IsSome(a.view_end_row) THEN Unwrap(a.view_end_row) ELSE tr
             new_end == Max(SatSub(current_end, rows), 1)
         IN IF tr = 0 THEN a ELSE [a EXCEPT !.view_end_row = Some(new_end)]
    ELSE a

\* scroll_down that goes live only when the new end row passes total_rows
scroll_down_past(a, rows) ==
    IF IsSome(a.graph_area) /\ IsSome(a.view_end_row)
    THEN LET width == Unwrap(a.graph_area).width
             tr == total_rows(a, width)
             new_end == Unwrap(a.view_end_row) + rows
         IN IF new_end > tr
            THEN [a EXCEPT !.view_end_row = None]
            ELSE [a EXCEPT !.view_end_row = Some(new_end)]
    ELSE a

\* App::scroll_down
scroll_down(a, rows) ==
    IF IsSome(a.graph_area) /\ IsSome(a.view_end_row)
    THEN LET width == Unwrap(a.graph_area).width
             tr == total_rows(a, width)
             new_end == Unwrap(a.view_end_row) + rows
         IN IF new_end >= tr
            THEN [a EXCEPT !.view_end_row = None]
            ELSE [a EXCEPT !.view_end_row = Some(new_end)]
    ELSE a

\* App::jump_to_live
jump_to_live(a) == [a EXCEPT !.view_end_row = None, !.paused = FALSE]

\* App::settings_increase, for the fields Interval and BufferSize
settings_increase(a, field) ==
    CASE field = "Interval" -> [a EXCEPT !.settings_interval = Min(@ + 1, 100000)]
      [] field = "BufferSize" -> [a EXCEPT !.settings_buffer_mb = Min(@ + 1, 1000)]
      [] OTHER -> a

\* App::settings_decrease, for the fields Interval and BufferSize
settings_decrease(a, field) ==
    CASE field = "Interval" -> [a EXCEPT !.settings_interval = Max(SatSub(@, 1), 1)]
      [] field = "BufferSize" -> [a EXCEPT !.settings_buffer_mb = Max(SatSub(@, 1), 1)]
      [] OTHER -> a

\* App::open_settings: the temporary values are taken from the active ones
\* (scale, colours and hide_cursor are not part of this record); the
\* function does not assign settings_buffer_mb
open_settings(a) ==
    [a EXCEPT !.settings_open = TRUE,
              !.settings_target = IF IsSome(a.config.host) THEN Unwrap(a.config.host) ELSE "",
              !.settings_interval = a.config.interval]

\* App::cancel_settings: restores the colour scale and hide_cursor (not part
\* of this record) and closes the dialog
cancel_settings(a) == [a EXCEPT !.settings_open = FALSE]

\* App::apply_settings
apply_settings(a) ==
    LET current_target == IF IsSome(a.config.host) THEN Unwrap(a.config.host) ELSE ""
        target_changed == a.settings_target # "" /\ a.settings_target # current_target
        interval_changed == a.settings_interval # a.config.interval
        cfg == [a.config EXCEPT
                  !.host = IF a.settings_target # "" THEN Some(a.settings_target) ELSE @,
                  !.interval = a.settings_interval,
                  !.buffer_mb = a.settings_buffer_mb]
    IN [a EXCEPT
          !.config = cfg,
          !.max_history = Config_max_history(cfg),
          !.needs_pinger_restart = IF target_changed \/ interval_changed THEN TRUE ELSE @,
          !.new_target = IF target_changed THEN Some(a.settings_target) ELSE @,
          !.new_interval = IF interval_changed THEN Some(a.settings_interval) ELSE @]

\* App::apply_inline_edit, for the fields Target (buffer: the text typed) and
\* Interval (buffer: the number the text parses to)
apply_inline_edit(a, field, buffer) ==
    CASE field = "Target" ->
           IF buffer # "" /\ buffer # (IF IsSome(a.config.host) THEN Unwrap(a.config.host) ELSE "")
           THEN [a EXCEPT !.config.host = Some(buffer),
                          !.new_target = Some(buffer),
                          !.needs_pinger_restart = TRUE]
           ELSE a
      [] field = "Interval" ->
           LET clamped == Max(1, Min(buffer, 100000))
           IN IF clamped # a.config.interval
              THEN [a EXCEPT !.config.interval = clamped,
                             !.new_interval = Some(clamped),
                             !.needs_pinger_restart = TRUE]
              ELSE a
      [] OTHER -> a

(* -------------------------------- Graph ------------------------------ *)

result_at_position_ring(results_len, result_base_seq, width, height, view_end_row, screen_row, screen_col) ==
    IF results_len = 0 \/ width = 0 \/ height = 0
    THEN None
    ELSE LET total_results == result_base_seq + results_len
             actual_end == Min(view_end_row, DivCeil(total_results, width))
             visible_rows == Min(actual_end, height)
             view_start_row == SatSub(actual_end, visible_rows)
             empty_rows_at_top == SatSub(height, visible_rows)
             data_row == view_start_row + (screen_row - empty_rows_at_top)
             seq_idx == data_row * width + screen_col
         IN IF screen_row < empty_rows_at_top THEN None
            ELSE IF data_row >= actual_end THEN None
            ELSE IF seq_idx < total_results THEN Some(seq_idx - result_base_seq)
            ELSE None

result_at_position_unshifted(results_len, result_base_seq, width, height, view_end_row, screen_row, screen_col) ==
    IF results_len = 0 \/ width = 0 \/ height = 0
    THEN None
    ELSE LET total_results == result_base_seq + results_len
             actual_end == Min(view_end_row, DivCeil(total_results, width))
             visible_rows == Min(actual_end, height)
             view_start_row == SatSub(actual_end, visible_rows)
             empty_rows_at_top == SatSub(height, visible_rows)
             data_row == view_start_row + (screen_row - empty_rows_at_top)
             seq_idx == data_row * width + screen_col
         IN IF screen_row < empty_rows_at_top THEN None
            ELSE IF data_row >= actual_end THEN None
            ELSE IF seq_idx >= result_base_seq /\ seq_idx < total_results
                 THEN Some(SatSub(seq_idx, 2 * result_base_seq))
            ELSE None

\* result_at_position anchored to the newest row, whatever view_end_row
result_at_position_live(results_len, result_base_seq, width, height, view_end_row, screen_row, screen_col) ==
    IF results_len = 0 \/ width = 0 \/ height = 0
    THEN None
    ELSE LET total_results == result_base_seq + results_len
             actual_end == DivCeil(total_results, width)
             visible_rows == Min(actual_end, height)
             view_start_row == SatSub(actual_end, visible_rows)
             empty_rows_at_top == SatSub(height, visible_rows)
             data_row == view_start_row + (screen_row - empty_rows_at_top)
             seq_idx == data_row * width + screen_col
         IN IF screen_row < empty_rows_at_top THEN None
            ELSE IF data_row >= actual_end THEN None
            ELSE IF seq_idx >= result_base_seq /\ seq_idx < total_results
                 THEN Some(seq_idx - result_base_seq)
            ELSE None

\* Graph::result_at_position
result_at_position(results_len, result_base_seq, width, height, view_end_row, screen_row, screen_col) ==
    IF results_len = 0 \/ width = 0 \/ height = 0
    THEN None
    ELSE LET total_results == result_base_seq + results_len
             actual_end == Min(view_end_row, DivCeil(total_results, width))
             visible_rows == Min(actual_end, height)
             view_start_row == SatSub(actual_end, visible_rows)
             empty_rows_at_top == SatSub(height, visible_rows)
             data_row == view_start_row + (screen_row - empty_rows_at_top)
             seq_idx == data_row * width + screen_col
         IN IF screen_row < empty_rows_at_top THEN None
            ELSE IF data_row >= actual_end THEN None
            ELSE IF seq_idx >= result_base_seq /\ seq_idx < total_results
                 THEN Some(seq_idx - result_base_seq)
            ELSE None

\* Graph::render: the screen row on which data row `data_row` is drawn, None when
\* it is outside the rows drawn (view_end is the row shown at the bottom)
render_screen_row(total_rows_, height, view_end_row, data_row) ==
    LET view_end == IF IsSome(view_end_row)
                    THEN Min(Unwrap(view_end_row), total_rows_) ELSE total_rows_
        visible_rows == Min(view_end, height)
        view_start_row == SatSub(view_end, visible_rows)
        empty_rows_at_top == SatSub(height, visible_rows)
        screen_row == empty_rows_at_top + (data_row - view_start_row)
    IN IF data_row >= view_start_row /\ data_row < view_end /\ screen_row < height
       THEN Some(screen_row) ELSE None

(* --------------------------- pinger sessions -------------------------- *)

\* the state of one pinger session: the task start() spawned (outer) and the
\* tasks that one spawned
NewSession(mode, chanId) ==
    [mode |-> mode,
     outer |-> "running",        \* "running", "returned" (setup failed), "aborted"
     tx |-> chanId,              \* the channel its senders belong to
     seq |-> 0,
     prev_rtt |-> None,
     probes |-> <<>>,            \* ICMP: seq -> None (in flight) or Some(result to send)
     pending |-> {},             \* UDP: the pending table's keys
     receiver |-> FALSE,         \* UDP: the receiver task is alive
     checker |-> FALSE,          \* UDP: the timeout checker task is alive
     orphans |-> {}]             \* the probes in flight when outer was aborted (history)

SendToDropped(q, rx, tx, msg) == Append(q, msg)
\* UnboundedSender::send: the message is queued while the receiver of the
\* sender's channel exists, and is discarded (Err) once it was dropped
ChanSend(q, rx, tx, msg) == IF tx = rx THEN Append(q, msg) ELSE q

(* IcmpPinger::start, src/ping/icmp.rs *)
\* the tick spawning the probe with the sequence number before the increment
IcmpTickFromZero(s) ==
    /\ sess[s].mode = "Icmp" /\ sess[s].outer = "running"
    /\ sess[s].seq < MaxProbes
    /\ sess' = [sess EXCEPT ![s].seq = @ + 1,
                            ![s].probes = [n \in DOMAIN @ \cup {sess[s].seq} |->
                                            IF n \in DOMAIN @ THEN @[n] ELSE None]]

\* ticker.tick().await; seq += 1; tokio::spawn of the probe task
IcmpTick(s) ==
    /\ sess[s].mode = "Icmp" /\ sess[s].outer = "running"
    /\ sess[s].seq < MaxProbes
    /\ sess' = [sess EXCEPT ![s].seq = @ + 1,
                            ![s].probes = [n \in DOMAIN @ \cup {sess[s].seq + 1} |->
                                            IF n \in DOMAIN @ THEN @[n] ELSE None]]

\* the completion of a probe that leaves prev_rtt alone on a timeout
IcmpCompleteKeepsPrev(s, n, outcome) ==
    /\ sess[s].mode = "Icmp"
    /\ n \in DOMAIN sess[s].probes /\ sess[s].probes[n] = None
    /\ IF outcome > 0
       THEN sess' = [sess EXCEPT
                       ![s].prev_rtt = Some(outcome),
                       ![s].probes[n] =
                           Some(PingResult_success(n, outcome, sess[s].prev_rtt))]
       ELSE sess' = [sess EXCEPT ![s].probes[n] = Some(PingResult_timeout(n))]

\* spawn_blocking(send_ping) returned: Ok(Ok(reply)) swaps prev_rtt and builds
\* a success, anything else clears prev_rtt and builds a timeout
IcmpCompleteWith(s, n, outcome) ==
    /\ sess[s].mode = "Icmp"
    /\ n \in DOMAIN sess[s].probes /\ sess[s].probes[n] = None
    /\ IF outcome > 0
       THEN sess' = [sess EXCEPT
                       ![s].prev_rtt = Some(outcome),
                       ![s].probes[n] =
                           Some(PingResult_success(n, outcome, sess[s].prev_rtt))]
       ELSE sess' = [sess EXCEPT
                       ![s].prev_rtt = None,
                       ![s].probes[n] = Some(PingResult_timeout(n))]

IcmpComplete(s, n) == \E outcome \in RttValues \cup {0} : IcmpCompleteWith(s, n, outcome)

\* tx_clone.send(ping_result); the probe task ends
IcmpSend(s, n) ==
    /\ sess[s].mode = "Icmp"
    /\ n \in DOMAIN sess[s].probes /\ sess[s].probes[n] # None
    /\ queue' = ChanSend(queue, main.rx, sess[s].tx,
                         [from |-> s, result |-> Unwrap(sess[s].probes[n])])
    /\ sess' = [sess EXCEPT ![s].probes = [k \in DOMAIN @ \ {n} |-> @[k]]]

(* UdpClientPinger::start as one session among several: each hold of the
   pending lock is one step (the steps inside it are the UDP client session
   above) *)
\* bind and connect, then the spawn of the receiver and the timeout checker;
\* a failure returns from the task
UdpSetup(s) ==
    /\ sess[s].mode = "UdpClient" /\ sess[s].outer = "running"
    /\ ~sess[s].receiver
    /\ \E ok \in BOOLEAN :
          sess' = IF ok
                  THEN [sess EXCEPT ![s].receiver = TRUE, ![s].checker = TRUE]
                  ELSE [sess EXCEPT ![s].outer = "returned"]

\* the send loop: ticker.tick().await; seq += 1; pending.insert; socket.send
UdpTick(s) ==
    /\ sess[s].mode = "UdpClient" /\ sess[s].outer = "running"
    /\ sess[s].receiver
    /\ sess[s].seq < MaxProbes
    /\ sess' = [sess EXCEPT ![s].seq = @ + 1, ![s].pending = @ \cup {sess[s].seq + 1}]

\* the receiver task: a reply for a pending n is removed, swaps prev_rtt and
\* sends a success
UdpReply(s, n) ==
    /\ sess[s].mode = "UdpClient" /\ sess[s].receiver
    /\ n \in sess[s].pending
    /\ \E rtt \in RttValues :
          /\ queue' = ChanSend(queue, main.rx, sess[s].tx,
                               [from |-> s,
                                result |-> PingResult_success(n, rtt, sess[s].prev_rtt)])
          /\ sess' = [sess EXCEPT ![s].pending = @ \ {n}, ![s].prev_rtt = Some(rtt)]

\* the timeout checker: a pending n past the timeout is removed, clears
\* prev_rtt and sends a timeout
UdpTimeout(s, n) ==
    /\ sess[s].mode = "UdpClient" /\ sess[s].checker
    /\ n \in sess[s].pending
    /\ queue' = ChanSend(queue, main.rx, sess[s].tx,
                         [from |-> s, result |-> PingResult_timeout(n)])
    /\ sess' = [sess EXCEPT ![s].pending = @ \ {n}, ![s].prev_rtt = None]

(* ------------------- the calls run_app makes on App ------------------- *)

\* the history starts again when the store is emptied
HistInit == [delivered |-> <<>>, from |-> <<>>, kfixed |-> TRUE]

\* the drain recording whatever the pause state
RecvResultAlways ==
    /\ queue # <<>>
    /\ queue' = Tail(queue)
    /\ app' = record_result(app, Head(queue).result)
    /\ hist' = [hist EXCEPT !.delivered = Append(@, Head(queue).result),
                            !.from = Append(@, Head(queue).from)]

\* run_app's drain, one try_recv: the result is recorded unless paused
RecvResult ==
    /\ queue # <<>>
    /\ queue' = Tail(queue)
    /\ IF app.paused
       THEN UNCHANGED <<app, hist>>
       ELSE /\ app' = record_result(app, Head(queue).result)
            /\ hist' = [hist EXCEPT !.delivered = Append(@, Head(queue).result),
                                    !.from = Append(@, Head(queue).from)]

\* terminal.draw stores the graph area of the frame
Draw ==
    \E w \in 1..MaxWidth, h \in 1..MaxHeight :
        /\ app.graph_area # Some([width |-> w, height |-> h])
        /\ app' = [app EXCEPT !.graph_area = Some([width |-> w, height |-> h])]

\* MouseEventKind::Down(Left) on the cell (screen_row, screen_col) of the graph
click_graph(a, screen_row, screen_col) ==
    LET g == Unwrap(a.graph_area)
        tr == total_rows(a, g.width)
        view_end == IF IsSome(a.view_end_row) THEN Unwrap(a.view_end_row) ELSE tr
        idx == result_at_position(Len(a.results), a.result_base_seq, g.width, g.height,
                                  view_end, screen_row, screen_col)
    IN [a EXCEPT !.popup = IF IsSome(idx)
                           THEN Some([result_idx |-> Unwrap(idx),
                                      screen_x |-> screen_col, screen_y |-> screen_row])
                           ELSE None]

Click ==
    /\ IsSome(app.graph_area)
    /\ \E r \in 0..(Unwrap(app.graph_area).height - 1),
          c \in 0..(Unwrap(app.graph_area).width - 1) :
          app' = click_graph(app, r, c)

TogglePause == app' = toggle_pause(app)

\* Up / PageUp, and the mouse wheel: 1, 10 or 3 rows
ScrollRows == {1, 3, 10}

ScrollUp == \E rows \in ScrollRows : app' = scroll_up(app, rows)

ScrollDown == \E rows \in ScrollRows : app' = scroll_down(app, rows)

JumpToLive == app' = jump_to_live(app)

SettingsIncrease ==
    /\ app.settings_buffer_mb < MaxBufferMb
    /\ app' = settings_increase(app, "BufferSize")

SettingsDecrease == app' = settings_decrease(app, "BufferSize")

ApplySettings ==
    /\ app' = apply_settings(app)
    /\ hist' = [hist EXCEPT !.kfixed = @ /\ app'.max_history = app.max_history]

ClearAllData ==
    /\ app' = clear_all_data(app)
    /\ hist' = HistInit

(* ------------- the history store under any sequence of calls ---------- *)

\* Config as parsed from the command line
ConfigOf(host, mode, buffer_mb) ==
    [host |-> host, mode |-> mode, interval |-> 1, buffer_mb |-> buffer_mb]

InitHist ==
    /\ UdpInit
    /\ \E b \in 1..MaxBufferMb : app = App_new(ConfigOf(Some("a"), "Icmp", b))
    /\ sess = <<NewSession("Icmp", 1)>>
    /\ queue = <<>>
    /\ main = [rx |-> 1]
    /\ hist = HistInit
    /\ call = 0

HistTick == \E s \in DOMAIN sess : IcmpTick(s) /\ UNCHANGED <<udpVars, call, app, queue, main, hist>>

HistComplete ==
    \E s \in DOMAIN sess : \E n \in DOMAIN sess[s].probes :
        IcmpComplete(s, n) /\ UNCHANGED <<udpVars, call, app, queue, main, hist>>

HistSend ==
    \E s \in DOMAIN sess : \E n \in DOMAIN sess[s].probes :
        IcmpSend(s, n) /\ UNCHANGED <<udpVars, call, app, main, hist>>

HistRecv == RecvResult /\ UNCHANGED <<udpVars, call, sess, main>>

HistSettingsIncrease == SettingsIncrease /\ UNCHANGED <<udpVars, call, sess, queue, main, hist>>

HistSettingsDecrease == SettingsDecrease /\ UNCHANGED <<udpVars, call, sess, queue, main, hist>>

HistApplySettings == ApplySettings /\ UNCHANGED <<udpVars, call, sess, queue, main>>

HistClearAllData == ClearAllData /\ UNCHANGED <<udpVars, call, sess, queue, main>>

NextHist ==
    \/ HistTick \/ HistComplete \/ HistSend \/ HistRecv
    \/ HistSettingsIncrease \/ HistSettingsDecrease \/ HistApplySettings
    \/ HistClearAllData

SpecHist == InitHist /\ [][NextHist]_vars

(* ------------------ the viewport over the history store --------------- *)

ViewDraw == Draw /\ UNCHANGED <<udpVars, call, sess, queue, main, hist>>

ViewClick == Click /\ UNCHANGED <<udpVars, call, sess, queue, main, hist>>

ViewScrollUp == ScrollUp /\ UNCHANGED <<udpVars, call, sess, queue, main, hist>>

ViewScrollDown == ScrollDown /\ UNCHANGED <<udpVars, call, sess, queue, main, hist>>

ViewJumpToLive == JumpToLive /\ UNCHANGED <<udpVars, call, sess, queue, main, hist>>

NextView ==
    \/ HistTick \/ HistComplete \/ HistSend \/ HistRecv
    \/ ViewDraw \/ ViewClick \/ ViewScrollUp \/ ViewScrollDown \/ ViewJumpToLive

SpecView == InitHist /\ [][NextView]_vars

(* ------------------ main: run_app and the restart branch -------------- *)

Hosts == {"a", "b"}

\* main after the first start_pinger, for a host given on the command line
Init ==
    /\ UdpInit
    /\ call = 0
    /\ \E mode \in {"Icmp", "UdpClient"}, b \in {1, 2} :
          /\ app = App_new(ConfigOf(Some("a"), mode, b))
          /\ sess = <<NewSession(mode, 1)>>
    /\ queue = <<>>
    /\ main = [pc |-> "event", config_host |-> Some("a"), resolved_ip |-> Some("a"),
               pinger_handle |-> Some(1), rx |-> 1,
               resolve |-> "ok"]      \* the arm the last match on resolve_host took
    /\ hist = HistInit

PingerVars == <<udpVars, call, app, main>>

RECURSIVE Ticks(_)
\* the ticks all sessions have made
Ticks(ss) == IF ss = <<>> THEN 0 ELSE Head(ss).seq + Ticks(Tail(ss))

\* the tasks of the sessions, running beside main
SessTick ==
    /\ \E s \in DOMAIN sess :
          \/ Ticks(sess) < MaxTicks /\ (IcmpTick(s) \/ UdpTick(s))
          \/ UdpSetup(s)
    /\ UNCHANGED <<PingerVars, queue, hist>>

SessComplete ==
    /\ \E s \in DOMAIN sess : \E n \in DOMAIN sess[s].probes : IcmpComplete(s, n)
    /\ UNCHANGED <<PingerVars, queue, hist>>

\* a task sends its result
SessSend ==
    /\ \E s \in DOMAIN sess : \E n \in DOMAIN sess[s].probes \cup sess[s].pending :
          IcmpSend(s, n) \/ UdpReply(s, n) \/ UdpTimeout(s, n)
    /\ UNCHANGED <<PingerVars, hist>>

\* run_app, one iteration: an event is handled, or none arrived in time and
\* the iteration goes on to the drain
EventTarget ==
    /\ main.pc = "event" /\ Len(sess) < MaxSessions
    /\ \E host \in Hosts : app' = apply_inline_edit(app, "Target", host)
    /\ main' = [main EXCEPT !.pc = "drain"]
    /\ UNCHANGED <<udpVars, call, sess, queue, hist>>

EventInterval ==
    /\ main.pc = "event" /\ Len(sess) < MaxSessions
    /\ \E val \in 1..2 : app' = apply_inline_edit(app, "Interval", val)
    /\ main' = [main EXCEPT !.pc = "drain"]
    /\ UNCHANGED <<udpVars, call, sess, queue, hist>>

\* while let Ok(result) = rx.try_recv()
Drain ==
    /\ main.pc \in {"event", "drain"}
    /\ RecvResult
    /\ main' = [main EXCEPT !.pc = "drain"]
    /\ UNCHANGED <<udpVars, call, sess>>

\* try_recv found the channel empty; run_app returns when a restart is asked
DrainEnd ==
    /\ main.pc \in {"event", "drain"} /\ queue = <<>>
    /\ main' = [main EXCEPT !.pc = IF app.needs_pinger_restart THEN "abort" ELSE "event"]
    /\ UNCHANGED <<udpVars, call, app, sess, queue, hist>>

\* JoinHandle::abort on the task start() spawned, and its await
AbortHandle(ss, h) ==
    IF IsSome(h) /\ ss[Unwrap(h)].outer = "running"
    THEN [ss EXCEPT ![Unwrap(h)].outer = "aborted",
                    ![Unwrap(h)].orphans = DOMAIN ss[Unwrap(h)].probes
                                               \cup ss[Unwrap(h)].pending]
    ELSE ss

\* needs_pinger_restart = false; pinger_handle.take(), abort, await
RestartAbort ==
    /\ main.pc = "abort"
    /\ app' = [app EXCEPT !.needs_pinger_restart = FALSE]
    /\ sess' = AbortHandle(sess, main.pinger_handle)
    /\ main' = [main EXCEPT !.pc = "target", !.pinger_handle = None]
    /\ UNCHANGED <<udpVars, call, queue, hist>>

\* the restart branch clearing the data whether or not the target changed
RestartTargetAlwaysClears ==
    /\ main.pc = "target"
    /\ app' = [clear_all_data(app) EXCEPT !.new_target = None]
    /\ main' = [main EXCEPT !.pc = "channel",
                            !.resolved_ip = IF IsSome(app.new_target)
                                            THEN app.new_target ELSE @,
                            !.resolve = IF IsSome(app.new_target) THEN "ok" ELSE "none"]
    /\ hist' = HistInit
    /\ UNCHANGED <<udpVars, call, sess, queue>>

\* if new_target: clear_all_data, resolve_host; a failure restores the host
\* of the startup configuration
RestartTarget ==
    /\ main.pc = "target"
    /\ IF IsSome(app.new_target)
       THEN /\ \E ok \in BOOLEAN :
                 LET cleared == [clear_all_data(app) EXCEPT !.new_target = None]
                 IN IF ok
                    THEN /\ app' = cleared
                         /\ main' = [main EXCEPT !.pc = "channel",
                                                 !.resolved_ip = app.new_target,
                                                 !.resolve = "ok"]
                    ELSE /\ app' = IF IsSome(main.config_host)
                                   THEN [cleared EXCEPT !.config.host = main.config_host]
                                   ELSE cleared
                         /\ main' = [main EXCEPT !.pc = "channel", !.resolve = "err"]
            /\ hist' = HistInit
       ELSE /\ main' = [main EXCEPT !.pc = "channel", !.resolve = "none"]
            /\ UNCHANGED <<app, hist>>
    /\ UNCHANGED <<udpVars, call, sess, queue>>

\* new_interval.take(); the new channel replaces tx and rx; start_pinger
RestartStart ==
    /\ main.pc = "channel"
    /\ app' = [app EXCEPT !.new_interval = None]
    /\ queue' = <<>>
    /\ IF IsSome(main.resolved_ip)
       THEN /\ sess' = Append(sess, NewSession(app.config.mode, main.rx + 1))
            /\ main' = [main EXCEPT !.pc = "event", !.rx = @ + 1,
                                    !.pinger_handle = Some(Len(sess) + 1)]
       ELSE /\ main' = [main EXCEPT !.pc = "event", !.rx = @ + 1]
            /\ UNCHANGED sess
    /\ UNCHANGED <<udpVars, call, hist>>

Next ==
    \/ SessTick \/ SessComplete \/ SessSend
    \/ EventTarget \/ EventInterval
    \/ Drain \/ DrainEnd
    \/ RestartAbort \/ RestartTarget \/ RestartStart

Spec == Init /\ [][Next]_vars

(* ------------------------- main: the startup -------------------------- *)

\* Config::parse: any mode, any numeric options, with or without a host
InitStartup ==
    /\ UdpInit
    /\ call = 0 /\ hist = 0 /\ queue = <<>>
    /\ app = None
    /\ sess = <<>>
    /\ \E mode \in {"Icmp", "UdpClient", "UdpServer"}, host \in {None, Some("a")},
          i \in 0..MaxCfg, t \in 0..MaxCfg, sc \in 0..MaxCfg, b \in 0..MaxCfg :
          main = [pc |-> "start",
                  config |-> [host |-> host, mode |-> mode, interval |-> i,
                              timeout |-> t, scale |-> sc, buffer_mb |-> b],
                  resolved_ip |-> None, pinger_handle |-> None, rx |-> 0]

\* mode == UdpServer: config.validate()?, then UdpServer::run
StartServer ==
    /\ main.pc = "start" /\ main.config.mode = "UdpServer"
    /\ main' = [main EXCEPT !.pc = IF Config_validate(main.config) = "Ok"
                                    THEN "server" ELSE "rejected"]
    /\ UNCHANGED <<udpVars, call, app, sess, queue, hist>>

\* the client modes: resolve_host(host)? when a host was given
StartResolve ==
    /\ main.pc = "start" /\ main.config.mode # "UdpServer"
    /\ IF IsSome(main.config.host)
       THEN \E ok \in BOOLEAN :
               main' = IF ok
                       THEN [main EXCEPT !.pc = "terminal",
                                         !.resolved_ip = main.config.host]
                       ELSE [main EXCEPT !.pc = "failed"]
       ELSE main' = [main EXCEPT !.pc = "terminal"]
    /\ UNCHANGED <<udpVars, call, app, sess, queue, hist>>

\* the terminal is set up; App::new(config.clone()), open_settings when no
\* host was given; the ping channel
StartApp ==
    /\ main.pc = "terminal"
    /\ app' = [App_new(main.config) EXCEPT !.settings_open = ~IsSome(main.config.host)]
    /\ main' = [main EXCEPT !.pc = "pinger", !.rx = 1]
    /\ UNCHANGED <<udpVars, call, sess, queue, hist>>

\* start_pinger if an address was resolved; then the event loop
StartPinger ==
    /\ main.pc = "pinger"
    /\ IF IsSome(main.resolved_ip)
       THEN /\ sess' = <<NewSession(main.config.mode, main.rx)>>
            /\ main' = [main EXCEPT !.pc = "event", !.pinger_handle = Some(1)]
       ELSE /\ main' = [main EXCEPT !.pc = "event"]
            /\ UNCHANGED sess
    /\ UNCHANGED <<udpVars, call, app, queue, hist>>

NextStartup == StartServer \/ StartResolve \/ StartApp \/ StartPinger

SpecStartup == InitStartup /\ [][NextStartup]_vars

(* ------------------- PingStats applied on its own --------------------- *)

\* the round-trip times of the results recorded
StatRtts == {1, 2, 3}

InitStats ==
    /\ UdpInit
    /\ app = 0 /\ sess = 0 /\ queue = 0 /\ main = 0 /\ hist = 0
    /\ call = [log |-> <<>>, stats |-> PingStats_new, shown |-> None]

\* stats.record(&result), for a success or a timeout
StatsRecord ==
    /\ Len(call.log) < MaxRecords
    /\ \E result \in {PingResult_success(Len(call.log) + 1, rtt, None) : rtt \in StatRtts}
                      \cup {PingResult_timeout(Len(call.log) + 1)} :
          call' = [log |-> Append(call.log, result),
                   stats |-> PingStats_record(call.stats, result),
                   shown |-> None]
    /\ UNCHANGED <<udpVars, app, sess, queue, main, hist>>

\* the footer is drawn: avg_rtt() and loss_percent() of the statistics
StatsShow ==
    /\ call.shown = None
    /\ call' = [call EXCEPT !.shown = Some([avg |-> avg_rtt(call.stats),
                                            loss |-> loss_percent(call.stats)])]
    /\ UNCHANGED <<udpVars, app, sess, queue, main, hist>>

NextStats == StatsRecord \/ StatsShow

SpecStats == InitStats /\ [][NextStats]_vars

(* ------------- one session of either pinger, and its jitter ----------- *)

\* the round-trip times of the ICMP replies (the UDP ones are measured)
JitterRtts == {1, 3}

\* one session: the UDP client above, or an ICMP session; hist is the
\* sequence of the ICMP results in the order their probes completed
InitJitter ==
    /\ UdpInit
    /\ call = 0 /\ app = 0
    /\ queue = <<>>
    /\ hist = <<>>
    /\ \E mode \in {"Icmp", "UdpClient"} :
          /\ main = [mode |-> mode, rx |-> 1]
          /\ sess = <<NewSession(mode, 1)>>

JitterUdp == main.mode = "UdpClient" /\ UdpNext

JitterIcmpTick ==
    /\ IcmpTick(1)
    /\ UNCHANGED <<udpVars, call, app, queue, main, hist>>

JitterIcmpComplete ==
    /\ \E n \in DOMAIN sess[1].probes : \E outcome \in JitterRtts \cup {0} :
          /\ IcmpCompleteWith(1, n, outcome)
          /\ hist' = Append(hist, Unwrap(sess'[1].probes[n]))
    /\ UNCHANGED <<udpVars, call, app, queue, main>>

JitterIcmpSend ==
    /\ \E n \in DOMAIN sess[1].probes : IcmpSend(1, n)
    /\ UNCHANGED <<udpVars, call, app, main, hist>>

NextJitter == JitterUdp \/ JitterIcmpTick \/ JitterIcmpComplete \/ JitterIcmpSend

SpecJitter == InitJitter /\ [][NextJitter]_vars

\* the ICMP session alone; send_ping returns within its timeout and a task
\* that can run is run, so a probe in flight completes and a completed probe
\* sends its result
InitIcmp == InitJitter /\ main.mode = "Icmp"

NextIcmp == JitterIcmpTick \/ JitterIcmpComplete \/ JitterIcmpSend

SpecIcmp ==
    /\ InitIcmp /\ [][NextIcmp]_vars
    /\ \A n \in 1..MaxProbes :
          /\ WF_vars(\E outcome \in JitterRtts \cup {0} :
                        /\ IcmpCompleteWith(1, n, outcome)
                        /\ hist' = Append(hist, Unwrap(sess'[1].probes[n]))
                        /\ UNCHANGED <<udpVars, call, app, queue, main>>)
          /\ WF_vars(IcmpSend(1, n) /\ UNCHANGED <<udpVars, call, app, main, hist>>)

(* --------------- the constructors of PingResult on their own ---------- *)

\* the instants a probe can be sent at
SentAts == {0, 1}

\* call.op is the constructor last applied, call.args its arguments and
\* call.result the result it built
InitResult ==
    /\ UdpInit
    /\ app = 0 /\ sess = <<>> /\ queue = <<>> /\ main = 0 /\ hist = 0
    /\ call = [op |-> "none", args |-> <<>>, result |-> None]

ResultSuccess ==
    /\ \E s \in 0..MaxSeq, rtt \in StatRtts, sent_at \in SentAts, late \in {0, 1} :
       \E prev \in {None} \cup {Some(r) : r \in StatRtts} :
          call' = [op |-> "success",
                   args |-> <<s, rtt, sent_at, prev>>,
                   result |-> Some(PingResult_success_full(s, rtt, sent_at, prev,
                                                           sent_at + rtt + late))]
    /\ UNCHANGED <<udpVars, app, sess, queue, main, hist>>

ResultTimeout ==
    /\ \E s \in 0..MaxSeq, sent_at \in SentAts :
          call' = [op |-> "timeout",
                   args |-> <<s, sent_at>>,
                   result |-> Some(PingResult_timeout_full(s, sent_at))]
    /\ UNCHANGED <<udpVars, app, sess, queue, main, hist>>

NextResult == ResultSuccess \/ ResultTimeout

SpecResult == InitResult /\ [][NextResult]_vars

(* --------------------------- the wire codec --------------------------- *)

\* b"PING"
MAGIC == <<80, 73, 78, 71>>

\* the length of a packet
PacketLen == 20

\* A u64 is written as its four 16-bit limbs, most significant first, so
\* that the whole 64-bit range is covered without a 64-bit number.
LimbValues == {0, 258, 65535}

U64s == [1..4 -> LimbValues]

\* u64::to_le_bytes
to_le_bytes(v) == <<v[4] % 256, v[4] \div 256, v[3] % 256, v[3] \div 256, v[2] % 256, v[2] \div 256, v[1] % 256, v[1] \div 256>>

\* u64::to_be_bytes
to_be_bytes(v) == <<v[1] \div 256, v[1] % 256, v[2] \div 256, v[2] % 256, v[3] \div 256, v[3] % 256, v[4] \div 256, v[4] % 256>>

\* u64::from_le_bytes
from_le_bytes(b) == <<b[8] * 256 + b[7], b[6] * 256 + b[5], b[4] * 256 + b[3], b[2] * 256 + b[1]>>

\* u64::from_be_bytes
from_be_bytes(b) == <<b[1] * 256 + b[2], b[3] * 256 + b[4], b[5] * 256 + b[6], b[7] * 256 + b[8]>>

\* buf[from..to], which panics when the range leaves the buffer
Slice(buf, from, to) ==
    IF from > to \/ to > Len(buf)
    THEN [panic |-> TRUE, bytes |-> <<>>]
    ELSE [panic |-> FALSE, bytes |-> SubSeq(buf, from + 1, to)]

\* buf[from..to].copy_from_slice(src), which panics when the lengths differ
copy_from_slice(b, from, to, src) ==
    IF b.panic \/ from > to \/ to > Len(b.bytes) \/ to - from # Len(src)
    THEN [panic |-> TRUE, bytes |-> <<>>]
    ELSE [panic |-> FALSE,
          bytes |-> [i \in 1..Len(b.bytes) |->
                        IF i > from /\ i <= to THEN src[i - from] ELSE b.bytes[i]]]

encode_packet(seq_, timestamp_us) ==
    LET buf == [panic |-> FALSE, bytes |-> [i \in 1..PacketLen |-> 0]]
        b1 == copy_from_slice(buf, 0, 4, MAGIC)
        b2 == copy_from_slice(b1, 4, 12, to_be_bytes(seq_))
    IN copy_from_slice(b2, 12, 20, to_be_bytes(timestamp_us))

\* decode_packet without the length test
decode_packet_no_length_check(buf) ==
    LET m == Slice(buf, 0, 4)
        s == Slice(buf, 4, 12)
        t == Slice(buf, 12, 20)
    IN IF m.panic THEN [panic |-> TRUE, value |-> None]
       ELSE IF m.bytes # MAGIC THEN [panic |-> FALSE, value |-> None]
       ELSE IF s.panic \/ t.panic THEN [panic |-> TRUE, value |-> None]
       ELSE [panic |-> FALSE,
             value |-> Some(<<from_be_bytes(s.bytes), from_be_bytes(t.bytes)>>)]

decode_packet(buf) ==
    IF Len(buf) < 20 THEN [panic |-> FALSE, value |-> None]
    ELSE LET m == Slice(buf, 0, 4)
             s == Slice(buf, 4, 12)
             t == Slice(buf, 12, 20)
         IN IF m.panic THEN [panic |-> TRUE, value |-> None]
            ELSE IF m.bytes # MAGIC THEN [panic |-> FALSE, value |-> None]
            ELSE IF s.panic \/ t.panic THEN [panic |-> TRUE, value |-> None]
            ELSE IF Len(s.bytes) # 8 \/ Len(t.bytes) # 8
                 THEN [panic |-> FALSE, value |-> None]
            ELSE [panic |-> FALSE,
                  value |-> Some(<<from_be_bytes(s.bytes), from_be_bytes(t.bytes)>>)]

\* the longest datagram
MaxDatagram == 34

\* The datagrams: of every length up to MaxDatagram, the first four bytes
\* the magic or the magic with the bytes at the positions bad replaced, the
\* rest a run of bytes that starts at fill.
Datagram(len, bad, fill) ==
    [i \in 1..len |-> IF i <= 4
                      THEN IF i \in bad THEN 78 ELSE MAGIC[i]
                      ELSE (fill + i) % 256]

Datagrams == {Datagram(len, bad, fill) : len \in 0..MaxDatagram, bad \in SUBSET {1, 2, 4}, fill \in {0, 250}}

InitCodec ==
    /\ UdpInit
    /\ app = 0 /\ sess = <<>> /\ queue = <<>> /\ main = 0 /\ hist = 0
    /\ call = [op |-> "none"]

\* encode_packet(seq, ts), and decode_packet of the packet
CodecEncode ==
    /\ call.op = "none"
    /\ \E s \in U64s, ts \in U64s :
          LET packet == encode_packet(s, ts)
          IN call' = [op |-> "encode", seq |-> s, ts |-> ts,
                      packet |-> packet,
                      decoded |-> IF packet.panic THEN [panic |-> TRUE, value |-> None]
                                  ELSE decode_packet(packet.bytes)]
    /\ UNCHANGED <<udpVars, app, sess, queue, main, hist>>

\* decode_packet(buf)
CodecDecode ==
    /\ call.op = "none"
    /\ \E buf \in Datagrams :
          call' = [op |-> "decode", buf |-> buf, decoded |-> decode_packet(buf)]
    /\ UNCHANGED <<udpVars, app, sess, queue, main, hist>>

NextCodec == CodecEncode \/ CodecDecode

SpecCodec == InitCodec /\ [][NextCodec]_vars

(* --------------------------- the UDP server --------------------------- *)

\* let mut buf = [0u8; 32]
RecvBufLen == 32

\* socket.recv_from(&mut buf) of the datagram d: a datagram longer than the
\* buffer is cut to the buffer, or reported as an error, as the platform does
recv_from(d, oversize) ==
    IF Len(d) <= RecvBufLen
    THEN [ok |-> TRUE, len |-> Len(d),
          buf |-> [i \in 1..RecvBufLen |-> IF i <= Len(d) THEN d[i] ELSE 0]]
    ELSE IF oversize = "truncate"
    THEN [ok |-> TRUE, len |-> RecvBufLen, buf |-> SubSeq(d, 1, RecvBufLen)]
    ELSE [ok |-> FALSE, len |-> 0, buf |-> [i \in 1..RecvBufLen |-> 0]]

\* handle_packet without the length test
handle_packet_no_length_check(buf, len, src) ==
    IF SubSeq(buf, 1, 4) = MAGIC
    THEN Some([to |-> src, bytes |-> SubSeq(buf, 1, len)])
    ELSE None

\* UdpServer::handle_packet: the send_to it makes, if any
handle_packet(buf, len, src) ==
    IF len >= 20 /\ SubSeq(buf, 1, 4) = MAGIC
    THEN Some([to |-> src, bytes |-> SubSeq(buf, 1, len)])
    ELSE None

InitServer ==
    /\ UdpInit
    /\ app = 0 /\ sess = <<>> /\ queue = <<>> /\ main = 0 /\ hist = 0
    /\ call = [op |-> "none"]

\* what an earlier turn of the loop left in the receive buffer: nothing, or
\* a 32-byte datagram that starts with the magic
StaleBufs == {[i \in 1..RecvBufLen |-> 0], Datagram(RecvBufLen, {}, 0)}

\* one turn of the loop of UdpServer::run: a datagram d arrives from src
\* and is written over the first bytes of the buffer, the rest of the
\* buffer is as the earlier turns left it
ServerRecv ==
    /\ call.op = "none"
    /\ \E d \in Datagrams, src \in Hosts, oversize \in {"truncate", "error"}, stale \in StaleBufs :
          LET r == recv_from(d, oversize)
              buf == [i \in 1..RecvBufLen |-> IF i <= r.len THEN r.buf[i] ELSE stale[i]]
          IN call' = [op |-> "recv", datagram |-> d, src |-> src,
                      ok |-> r.ok, buf |-> buf, len |-> r.len,
                      sent |-> IF r.ok THEN handle_packet(buf, r.len, src) ELSE None]
    /\ UNCHANGED <<udpVars, app, sess, queue, main, hist>>

NextServer == ServerRecv

SpecServer == InitServer /\ [][NextServer]_vars

(* ----------------------- run_app and the pause ------------------------ *)

\* run_app after its first draw, over an ICMP session; hist.while_paused is
\* the set of the sequence numbers whose results were sent while paused and
\* hist.emitted the sequence numbers in the order their results were sent
InitPause ==
    /\ UdpInit
    /\ call = 0
    /\ \E b \in {1, 2}, w \in {1, 2}, h \in {1, 2} :
          app = [App_new(ConfigOf(Some("a"), "Icmp", b)) EXCEPT
                    !.graph_area = Some([width |-> w, height |-> h])]
    /\ sess = <<NewSession("Icmp", 1)>>
    /\ queue = <<>>
    /\ main = [pc |-> "event", rx |-> 1]
    /\ hist = [delivered |-> <<>>, from |-> <<>>, kfixed |-> TRUE, while_paused |-> {},
               emitted |-> <<>>]

PauseTick ==
    /\ sess[1].seq < MaxTicks
    /\ IcmpTick(1)
    /\ UNCHANGED <<udpVars, call, app, queue, main, hist>>

PauseComplete ==
    /\ \E n \in DOMAIN sess[1].probes : IcmpComplete(1, n)
    /\ UNCHANGED <<udpVars, call, app, queue, main, hist>>

PauseSend ==
    /\ \E n \in DOMAIN sess[1].probes :
          /\ IcmpSend(1, n)
          /\ hist' = [hist EXCEPT !.while_paused = IF app.paused THEN @ \cup {n} ELSE @,
                                  !.emitted = Append(@, n)]
    /\ UNCHANGED <<udpVars, call, app, main>>

\* KeyCode::Char(' '): app.toggle_pause()
EventPause ==
    /\ main.pc = "event"
    /\ TogglePause
    /\ main' = [main EXCEPT !.pc = "drain"]
    /\ UNCHANGED <<udpVars, call, sess, queue, hist>>

\* KeyCode::Up: app.scroll_up(1)
EventScrollUp ==
    /\ main.pc = "event"
    /\ app' = scroll_up(app, 1)
    /\ app' # app
    /\ main' = [main EXCEPT !.pc = "drain"]
    /\ UNCHANGED <<udpVars, call, sess, queue, hist>>

NextPause ==
    \/ PauseTick \/ PauseComplete \/ PauseSend
    \/ EventPause \/ EventScrollUp
    \/ Drain \/ DrainEnd

SpecPause == InitPause /\ [][NextPause]_vars

(* ------------- the application under any sequence of events ---------- *)

\* the graph area is the one of the first frame and stays
InitApp ==
    /\ UdpInit /\ call = 0
    /\ \E b \in {1, 2}, w \in {1, 2} :
          app = [App_new(ConfigOf(Some("a"), "Icmp", b)) EXCEPT !.graph_area = Some([width |-> w, height |-> 2])]
    /\ sess = <<NewSession("Icmp", 1)>> /\ queue = <<>>
    /\ main = [rx |-> 1]
    /\ hist = HistInit

\* KeyCode::Char(' ')
AppTogglePause == TogglePause /\ UNCHANGED <<udpVars, call, sess, queue, main, hist>>

\* KeyCode::Char('s'): toggle_settings with the dialog closed
AppOpenSettings ==
    /\ app' = open_settings(app)
    /\ UNCHANGED <<udpVars, call, sess, queue, main, hist>>

\* Esc in the dialog, or Enter on Cancel
AppCancelSettings ==
    /\ app' = cancel_settings(app)
    /\ UNCHANGED <<udpVars, call, sess, queue, main, hist>>

\* Enter on Confirm: apply_settings(); settings_open = false
AppConfirmSettings ==
    /\ app' = [apply_settings(app) EXCEPT !.settings_open = FALSE]
    /\ hist' = [hist EXCEPT !.kfixed = @ /\ app'.max_history = app.max_history]
    /\ UNCHANGED <<udpVars, call, sess, queue, main>>

\* the keys go to the dialog while it is open, to the graph otherwise; the
\* pinger and the drain run in both cases, the pinger with an interval longer
\* than a probe takes (a tick finds no probe in flight)
NextApp ==
    \/ (sess[1].probes = <<>> /\ HistTick) \/ HistComplete \/ HistSend \/ HistRecv
    \/ HistClearAllData
    \/ /\ ~app.settings_open
       /\ \/ AppTogglePause \/ AppOpenSettings
          \/ ViewScrollUp \/ ViewScrollDown \/ ViewJumpToLive
    \/ /\ app.settings_open
       /\ \/ HistSettingsIncrease \/ HistSettingsDecrease
          \/ AppConfirmSettings \/ AppCancelSettings

SpecApp == InitApp /\ [][NextApp]_vars

(* ---------------- result_at_position applied on its own --------------- *)

\* the arguments: any store, any graph area, any row at the bottom, and a cell
\* (screen_row, screen_col) of the area, as the callers' bounds test ensures
InitGraph ==
    /\ UdpInit
    /\ app = 0 /\ sess = 0 /\ queue = 0 /\ main = 0 /\ hist = 0
    /\ \E len \in 0..MaxLen, base \in 0..MaxBase,
          w \in 0..MaxWidth, h \in 0..MaxHeight,
          v \in 0..(MaxBase + MaxLen + 1),
          r \in 0..(MaxHeight - 1), c \in 0..(MaxWidth - 1) :
          /\ (h > 0 => r < h) /\ (w > 0 => c < w)
          /\ call = [results_len |-> len, result_base_seq |-> base,
                     width |-> w, height |-> h, view_end_row |-> v,
                     screen_row |-> r, screen_col |-> c,
                     done |-> FALSE, out |-> None]

ResultAtPosition ==
    /\ ~call.done
    /\ call' = [call EXCEPT
                  !.done = TRUE,
                  !.out = result_at_position(call.results_len, call.result_base_seq,
                                             call.width, call.height, call.view_end_row,
                                             call.screen_row, call.screen_col)]
    /\ UNCHANGED <<udpVars, app, sess, queue, main, hist>>

NextGraph == ResultAtPosition

SpecGraph == InitGraph /\ [][NextGraph]_vars

(* ------------------- properties of the UDP session ------------------- *)

ResultsFor(n) == {i \in DOMAIN chan : chan[i].seq = n}

AtMostOneResult == \A n \in 0..MaxSeq : Cardinality(ResultsFor(n)) <= 1

\* the receiver's step for a datagram whose sequence is not in the pending table
DropsUnknown ==
    (pcR = "lock" /\ pcR' # "lock" /\ rloc.seq \notin DOMAIN pending)
        => (pending' = pending /\ prev_rtt' = prev_rtt /\ chan' = chan /\ pcR' = "recv")

\* C1: in one UDP session no sequence number gets more than one result on the
\* channel, whatever datagrams arrive and however the three tasks interleave;
\* and a datagram whose sequence is not pending changes neither the pending
\* table, nor prev_rtt, nor the channel.
C1_AtMostOnce == []AtMostOneResult /\ [][DropsUnknown]_vars

\* a reply for a sequence already reported as timed out has been dropped
C1_Witness ==
    /\ rloc.last = "dropped_resolved"
    /\ \E i \in DOMAIN chan : chan[i].seq = rloc.seq /\ chan[i].rtt = None

\* C2: a probe whose reply had not arrived TimeoutTicks after it was sent is
\* never reported as a success.
C2_NoSuccessAfterTimeout ==
    rloc.last = "success" => rloc.arrived <= TimeoutTicks

(* ------------------- properties of the history store ------------------ *)

\* C3: with max_history = k >= 1 unchanged since the store was empty, after n
\* calls of record_result the store holds n entries with result_base_seq = 0
\* when n <= k, and exactly k entries with result_base_seq = n - k when n > k.
C3_EvictionCounts ==
    hist.kfixed =>
        LET n == Len(hist.delivered)
            k == app.max_history
        IN IF n <= k
           THEN Len(app.results) = n /\ app.result_base_seq = 0
           ELSE Len(app.results) = k /\ app.result_base_seq = n - k

C3_Witness ==
    /\ hist.kfixed
    /\ Len(hist.delivered) = app.max_history + 2
    /\ Len(app.results) = app.max_history
    /\ app.result_base_seq = 2

Seqs(q) == {q[i].seq : i \in DOMAIN q}

\* C4 as stated: once more than k results were recorded with max_history = k,
\* every retained result has a higher sequence number than every recorded
\* result that is no longer retained.
C4_HighestSeqRetained ==
    (hist.kfixed /\ Len(hist.delivered) > app.max_history) =>
        \A r \in Seqs(app.results) :
            \A d \in Seqs(hist.delivered) \ Seqs(app.results) : d < r

\* C4 amended: with max_history = k unchanged since the store was empty, the
\* retained results are the k most recently recorded ones, in the order of
\* their recording, whatever their sequence numbers.
C4_LastRecordedRetained ==
    hist.kfixed => app.results = LastN(hist.delivered, app.max_history)

C4_Witness ==
    /\ hist.kfixed
    /\ Len(hist.delivered) > app.max_history
    /\ app.results = LastN(hist.delivered, app.max_history)
    /\ \E r \in Seqs(app.results) :
          \E d \in Seqs(hist.delivered) \ Seqs(app.results) : d > r

StableIndexing ==
    /\ app.result_base_seq + Len(app.results) = Len(hist.delivered)
    /\ \A i \in DOMAIN app.results :
          app.results[i] = hist.delivered[app.result_base_seq + i]

BaseNeverDecreases ==
    Len(hist'.delivered) >= Len(hist.delivered)
        => app'.result_base_seq >= app.result_base_seq

\* C5: counting the record_result calls made since the store was empty from 0,
\* the entry at ring position i is the result of call result_base_seq + i, for
\* as long as it is retained, so no index is given to two results; and
\* result_base_seq never decreases while results are recorded.
C5_StableIndexing == []StableIndexing /\ [][BaseNeverDecreases]_vars

C5_Witness ==
    /\ app.result_base_seq >= 1
    /\ Len(app.results) >= 2
    /\ app.results[1] = hist.delivered[app.result_base_seq + 1]
    /\ app.results[2] = hist.delivered[app.result_base_seq + 2]

\* C8: in every reachable state of the consumer the history holds at most
\* max_history results.
C8_BoundedHistory == Len(app.results) <= app.max_history

(* -------------------- properties of the addressing -------------------- *)

\* render draws stable index s on the cell result_at_position was applied to
Shows(s) ==
    /\ call.width > 0
    /\ call.screen_col = s % call.width
    /\ render_screen_row(DivCeil(call.result_base_seq + call.results_len, call.width),
                         call.height, Some(call.view_end_row), s \div call.width)
           = Some(call.screen_row)

Retained == call.result_base_seq .. (call.result_base_seq + call.results_len - 1)

\* C6: for width > 0 and a retained stable index s, result_at_position applied
\* to the screen cell on which data row s / width, column s % width is drawn
\* returns ring position s - result_base_seq, whatever the number of evictions.
C6_AddressingStability ==
    call.done =>
        \A s \in Retained : Shows(s) => call.out = Some(s - call.result_base_seq)

C6_Witness ==
    /\ call.done
    /\ call.result_base_seq >= 2
    /\ Shows(call.result_base_seq + 1)
    /\ call.screen_row # (call.result_base_seq + 1) \div call.width
    /\ call.result_base_seq + 1 \in Retained
    /\ call.out = Some(1)

\* C7: result_at_position returns None when results_len, width or height is 0
\* and for every cell on which no retained stable index is drawn (an evicted
\* index, one not yet produced, an empty row above the data); every value it
\* returns is a ring position in 0 .. results_len - 1.
C7_AddressingBounds ==
    call.done =>
        /\ (call.results_len = 0 \/ call.width = 0 \/ call.height = 0)
               => call.out = None
        /\ (\A s \in Retained : ~Shows(s)) => call.out = None
        /\ IsSome(call.out)
               => Unwrap(call.out) >= 0 /\ Unwrap(call.out) < call.results_len

C7_Witness ==
    /\ call.done
    /\ call.results_len > 0 /\ call.height > 0
    /\ \E s \in 0..(call.result_base_seq - 1) : Shows(s)
    /\ call.out = None

(* ---------------------- properties of the restart --------------------- *)

\* a task of session s has not terminated
TasksAlive(s) ==
    \/ sess[s].outer = "running"
    \/ sess[s].receiver \/ sess[s].checker
    \/ DOMAIN sess[s].probes # {}

\* C9: when the restart branch creates the new channel and the new pinger,
\* every task of the old session has terminated, and at no time are tasks of
\* two sessions alive together.
C9_OldTasksTerminated ==
    /\ main.pc = "channel" => \A s \in DOMAIN sess : ~TasksAlive(s)
    /\ Cardinality({s \in DOMAIN sess : TasksAlive(s)}) <= 1

NoOrphanRecorded ==
    \A i \in DOMAIN hist.from :
        hist.delivered[i].seq \notin sess[hist.from[i]].orphans

RecordsCurrent ==
    Len(hist'.from) > Len(hist.from) =>
        LET f == hist'.from[Len(hist'.from)]
        IN /\ main.pinger_handle = Some(f)
           /\ sess[f].tx = main.rx
           /\ sess[f].outer # "aborted"

\* C10: no probe that was in flight when its session was aborted is ever
\* recorded, and every result recorded was sent by the session main holds the
\* handle of, on the channel main holds the receiver of.
C10_NoSpuriousResults == []NoOrphanRecorded /\ [][RecordsCurrent]_vars

C10_Witness ==
    /\ \E s \in DOMAIN sess : \E n \in sess[s].orphans :
          /\ sess[s].outer = "aborted"
          /\ n \notin DOMAIN sess[s].probes \cup sess[s].pending
    /\ hist.from # <<>>
    /\ main.pinger_handle = Some(hist.from[Len(hist.from)])
    /\ sess[hist.from[Len(hist.from)]].tx = main.rx
    /\ main.rx > 1

(* ------------------ properties of a failed resolution ----------------- *)

\* the step of the restart branch in which resolve_host returned Err
ResolveFails == main.pc = "target" /\ main'.pc = "channel" /\ main'.resolve = "err"

\* C11: when the new target of a runtime target change does not resolve, the
\* session that was running is not aborted and the statistics and the history
\* are what they were before the failure.
C11_KeptOnResolveFailure ==
    [][ResolveFails =>
          /\ app'.stats = app.stats
          /\ app'.results = app.results
          /\ app'.result_base_seq = app.result_base_seq
          /\ \A s \in DOMAIN sess : sess[s].tx = main.rx => sess'[s].outer # "aborted"]_vars

(* ----------------------- properties of the startup -------------------- *)

\* the server, the history store (App) or a pinger has been started
EngineStarted == main.pc \in {"server", "pinger", "event"}

\* C12: in every mode, a configuration whose interval, timeout, scale or
\* buffer size is zero never gets as far as starting the server, the history
\* store or a pinger.
C12_ZeroRejected ==
    (\/ main.config.interval = 0 \/ main.config.timeout = 0
     \/ main.config.scale = 0 \/ main.config.buffer_mb = 0) => ~EngineStarted

(* ---------------------- properties of the statistics ------------------ *)

\* the round-trip times of the successes in the log, by position
SuccessAt == {i \in DOMAIN call.log : IsSome(call.log[i].rtt)}

RttAt(i) == Unwrap(call.log[i].rtt)

RECURSIVE SumOf(_)
SumOf(S) == IF S = {} THEN 0 ELSE LET i == CHOOSE i \in S : TRUE IN RttAt(i) + SumOf(S \ {i})

\* C13: after record was applied to N successes and M timeouts in any order,
\* total_sent = N + M, total_received = N, total_lost = M, min_rtt and max_rtt
\* are the least and the greatest RTT (None when N = 0), sum_rtt is their sum,
\* loss_percent is 100 * M / (N + M) (0 when N + M = 0), and total_sent =
\* total_received + total_lost.
C13_Statistics ==
    LET st == call.stats
        N == Cardinality(SuccessAt)
        M == Len(call.log) - N
    IN /\ st.total_sent = N + M /\ st.total_received = N /\ st.total_lost = M
       /\ st.total_sent = st.total_received + st.total_lost
       /\ st.sum_rtt = SumOf(SuccessAt)
       /\ IF N = 0
          THEN st.min_rtt = None /\ st.max_rtt = None
          ELSE /\ \E i \in SuccessAt : st.min_rtt = Some(RttAt(i))
               /\ \E i \in SuccessAt : st.max_rtt = Some(RttAt(i))
               /\ \A i \in SuccessAt : Unwrap(st.min_rtt) <= RttAt(i)
               /\ \A i \in SuccessAt : Unwrap(st.max_rtt) >= RttAt(i)
       /\ IsSome(call.shown) =>
             LET loss == Unwrap(call.shown).loss
             IN IF N + M = 0
                THEN loss[1] = 0
                ELSE loss[1] * (N + M) = 100 * M * loss[2]

C13_Witness ==
    /\ IsSome(call.shown)
    /\ Len(call.log) = 4
    /\ call.log[1].rtt = Some(2) /\ call.log[2].rtt = None
    /\ call.log[3].rtt = Some(1) /\ call.log[4].rtt = Some(3)
    /\ call.stats.min_rtt = Some(1) /\ call.stats.max_rtt = Some(3)
    /\ Unwrap(call.shown).loss = <<100, 4>>

\* C14: for every value of the counter total_received, avg_rtt() does not
\* panic and is sum_rtt / total_received when total_received > 0 and None
\* when it is 0.
C14_AverageRtt ==
    IsSome(call.shown) =>
        /\ ~Unwrap(call.shown).avg.panic
        /\ Unwrap(call.shown).avg.value =
              IF call.stats.total_received > 0
              THEN Some(call.stats.sum_rtt \div call.stats.total_received)
              ELSE None

(* ------------------------ properties of the jitter -------------------- *)

\* in the sequence log of completed results, every success carries the
\* absolute difference from the success right before it, and no jitter when
\* it is the first result or follows a timeout; a timeout carries none
JitterFollows(log) ==
    \A i \in DOMAIN log :
        log[i].jitter =
            IF IsSome(log[i].rtt) /\ i > 1 /\ IsSome(log[i - 1].rtt)
            THEN Some(AbsDiff(Unwrap(log[i].rtt), Unwrap(log[i - 1].rtt)))
            ELSE None

\* C15: in the order in which the results of a session complete, a success
\* has jitter |rtt - previous rtt| when the result completed right before it
\* is a success, and no jitter when it is the first result or follows a
\* timeout; for the ICMP pinger and for the UDP client.
C15_JitterAcrossSession ==
    /\ main.mode = "Icmp" => JitterFollows(hist)
    /\ main.mode = "UdpClient" => JitterFollows(chan)

C15_Witness ==
    /\ main.mode = "Icmp"
    /\ Len(hist) = 3
    /\ hist[1].rtt = Some(1) /\ hist[1].jitter = None
    /\ hist[2].rtt = Some(3) /\ hist[2].jitter = Some(2)
    /\ hist[3].rtt = None

(* ---------------------- properties of PingResult ---------------------- *)

\* C16: success(seq, rtt, sent_at, prev) has rtt and received_at present and
\* jitter |rtt - prev| when prev is present, absent otherwise; timeout(seq,
\* sent_at) has rtt, received_at and jitter absent; so every result built has
\* rtt present exactly when received_at is, and jitter only with rtt.
C16_ResultModel ==
    /\ call.op = "success" =>
          LET r == Unwrap(call.result)
              rtt == call.args[2]
              prev == call.args[4]
          IN /\ r.seq = call.args[1] /\ r.sent_at = call.args[3]
             /\ r.rtt = Some(rtt)
             /\ IsSome(r.received_at)
             /\ IsSome(prev) => r.jitter = Some(AbsDiff(rtt, Unwrap(prev)))
             /\ ~IsSome(prev) => r.jitter = None
    /\ call.op = "timeout" =>
          LET r == Unwrap(call.result)
          IN /\ r.seq = call.args[1] /\ r.sent_at = call.args[2]
             /\ r.rtt = None /\ r.received_at = None /\ r.jitter = None
    /\ IsSome(call.result) =>
          LET r == Unwrap(call.result)
          IN /\ IsSome(r.rtt) <=> IsSome(r.received_at)
             /\ IsSome(r.jitter) => IsSome(r.rtt)

C16_Witness ==
    /\ call.op = "success"
    /\ call.args[2] = 1 /\ call.args[4] = Some(3)
    /\ Unwrap(call.result).jitter = Some(2)
    /\ IsSome(Unwrap(call.result).received_at)

(* ---------------------- properties of the codec ----------------------- *)

\* C17: for every seq and ts, decode_packet(encode_packet(seq, ts)) is
\* Some((seq, ts)).
C17_RoundTrip ==
    call.op = "encode" =>
        /\ ~call.decoded.panic
        /\ call.decoded.value = Some(<<call.seq, call.ts>>)

C17_Witness ==
    /\ call.op = "encode"
    /\ call.seq = <<0, 0, 0, 258>> /\ call.ts = <<65535, 258, 0, 65535>>
    /\ call.decoded.value = Some(<<call.seq, call.ts>>)

\* C18: decode_packet returns None for every buffer shorter than 20 bytes,
\* also when it starts with the magic, and for every buffer whose first four
\* bytes are not the magic, whatever its length; and it never panics.
C18_Rejection ==
    call.op = "decode" =>
        /\ ~call.decoded.panic
        /\ Len(call.buf) < 20 => call.decoded.value = None
        /\ (Len(call.buf) >= 4 /\ \E i \in 1..4 : call.buf[i] # MAGIC[i]) =>
              call.decoded.value = None

C18_Witness ==
    /\ call.op = "decode"
    /\ Len(call.buf) = 19
    /\ \A i \in 1..4 : call.buf[i] = MAGIC[i]
    /\ call.decoded.value = None

\* byte i (from 0, most significant first) of the u64 v
ByteOf(v, i) == LET limb == v[(i \div 2) + 1] IN IF i % 2 = 0 THEN limb \div 256 ELSE limb % 256

\* C19: encode_packet is defined for every seq and ts and gives exactly 20
\* bytes: bytes 0-3 the magic "PING", bytes 4-11 seq and bytes 12-19 ts, both
\* big-endian (the most significant byte first).
C19_WireLayout ==
    call.op = "encode" =>
        /\ ~call.packet.panic
        /\ Len(call.packet.bytes) = 20
        /\ SubSeq(call.packet.bytes, 1, 4) = <<80, 73, 78, 71>>
        /\ \A i \in 0..7 :
              /\ call.packet.bytes[4 + i + 1] = ByteOf(call.seq, i)
              /\ call.packet.bytes[12 + i + 1] = ByteOf(call.ts, i)

C19_Witness ==
    /\ call.op = "encode"
    /\ call.seq = <<0, 0, 0, 258>> /\ call.ts = <<258, 0, 0, 0>>
    /\ call.packet.bytes = <<80, 73, 78, 71, 0, 0, 0, 0, 0, 0, 1, 2, 1, 2, 0, 0, 0, 0, 0, 0>>

(* -------------------- properties of the UDP server -------------------- *)

\* C20: for every datagram of at least 20 bytes that starts with the magic,
\* the server sends to the sender a datagram identical to the one received
\* (also when it is longer than the 32-byte receive buffer); for every other
\* datagram it sends nothing.
C20_EchoVerbatim ==
    call.op = "recv" =>
        IF Len(call.datagram) >= 20 /\ SubSeq(call.datagram, 1, 4) = <<80, 73, 78, 71>>
        THEN call.sent = Some([to |-> call.src, bytes |-> call.datagram])
        ELSE call.sent = None

(* ----------------------- properties of total_rows --------------------- *)

\* r is the ceiling of n / d
IsCeil(r, n, d) == r * d >= n /\ (r - 1) * d < n

RowsAsClaimed ==
    \A w \in 0..MaxWidth :
        IF w > 0 /\ app.results # <<>>
        THEN IsCeil(total_rows(app, w), app.result_base_seq + Len(app.results), w)
        ELSE total_rows(app, w) = 0

\* a step of the drain that records a result
RecordStep == queue # <<>> /\ queue' = Tail(queue) /\ ~app.paused

RowsNeverDecrease ==
    (RecordStep /\ app.max_history >= 1) =>
        \A w \in 0..MaxWidth : total_rows(app', w) >= total_rows(app, w)

\* C21: total_rows(width) is the ceiling of (result_base_seq + len) / width
\* when width > 0 and the store is not empty, and 0 otherwise; with
\* max_history >= 1 and a fixed width no call of record_result lowers it,
\* whatever it evicts.
C21_RowCount == []RowsAsClaimed /\ [][RowsNeverDecrease]_vars

C21_Witness ==
    /\ app.result_base_seq = 2 /\ Len(app.results) = 1
    /\ total_rows(app, 2) = 2 /\ total_rows(app, 0) = 0

(* ------------------- properties of the UDP socket setup --------------- *)

SetupFailed == pcS = "failed"

NothingStarted ==
    /\ pcR = "off" /\ pcW = "off"
    /\ pending = <<>> /\ wire = {} /\ chan = <<>> /\ seq = 0

\* C22: when binding or connecting the client socket fails, the task ends:
\* the receiver and the timeout checker are never spawned, nothing is put in
\* the pending table, no result is ever sent, and the setup is not tried
\* again.
C22_SetupFailure ==
    /\ [](SetupFailed => NothingStarted)
    /\ [][SetupFailed => (SetupFailed' /\ NothingStarted')]_vars

C22_Witness == SetupFailed /\ NothingStarted

(* ------------------------ properties of the pause --------------------- *)

\* a step of the drain: one result leaves the channel
DrainStep == queue # <<>> /\ queue' = Tail(queue)

\* a result drained while paused is dropped and App is left as it was
PausedDrainDiscards == (DrainStep /\ app.paused) => app' = app

\* the ticker of the session does not look at the pause
PingerIndependent == (ENABLED PauseTick) <=> (sess[1].seq < MaxTicks)

\* the results recorded so far
Recorded == {hist.delivered[i].seq : i \in DOMAIN hist.delivered}

SentWhilePausedNeverRecorded == hist.while_paused \cap Recorded = {}

\* C23 as stated: while paused every drained result is discarded and leaves
\* the statistics, the history, result_base_seq and the view position as they
\* were; the pinger keeps sending whatever the pause state; and a result
\* sent while paused is never recorded later.
C23_PauseDiscards ==
    /\ [][PausedDrainDiscards]_vars
    /\ [](PingerIndependent /\ SentWhilePausedNeverRecorded)

\* C23 amended: a result is discarded when the consumer is paused at the
\* time it is drained (whenever it was sent): it then leaves the channel and
\* App is unchanged; the pinger keeps sending whatever the pause state.
C23_PauseDiscardsAtDrain ==
    /\ [][PausedDrainDiscards]_vars
    /\ []PingerIndependent

C23_Witness ==
    /\ app.paused
    /\ sess[1].seq = 2
    /\ hist.while_paused = {2}
    /\ queue = <<>> /\ sess[1].probes = <<>>
    /\ Recorded = {1}
    /\ app.stats.total_sent = 1
    /\ app.view_end_row = Some(1)

(* ------------------ properties of the statistics' lifetime ------------ *)

\* the statistics, the history and its base
Data(a) == <<a.stats, a.results, a.result_base_seq>>

\* the step of the restart branch taken for a new target
TargetChangeStep == main.pc = "target" /\ main'.pc = "channel" /\ IsSome(app.new_target)

RECURSIVE StatsOf(_)
StatsOf(rs) == IF rs = <<>> THEN PingStats_new ELSE PingStats_record(StatsOf(SubSeq(rs, 1, Len(rs) - 1)), rs[Len(rs)])

\* a step of run_app's drain that records a result
DrainRecordStep == main.pc \in {"event", "drain"} /\ RecordStep

DataSteps ==
    /\ DrainRecordStep => app'.stats = PingStats_record(app.stats, Head(queue).result)
    /\ TargetChangeStep => Data(app') = <<PingStats_new, <<>>, 0>>
    /\ Data(app') # Data(app) => (DrainRecordStep \/ TargetChangeStep)

\* C24: the statistics are updated once per recorded result; they are reset,
\* with the history and result_base_seq, by the restart for a new target and
\* by nothing else: a restart for a new interval only, and every other step,
\* leaves them as they were.
C24_StatisticsLifetime ==
    /\ [](app.stats = StatsOf(hist.delivered))
    /\ [][DataSteps]_vars

\* after a restart for a new interval only, the data recorded before it
C24_Witness ==
    /\ main.pc = "event" /\ main.resolve = "none"
    /\ Len(sess) = 2
    /\ app.stats.total_sent = 2 /\ Len(app.results) = 1 /\ app.result_base_seq = 1

(* --------------------- properties of the delivery order --------------- *)

\* the position of the sequence number n in the sequence q of sequence numbers
PosIn(q, n) == CHOOSE i \in DOMAIN q : q[i] = n

\* the results of rs are in the order in which they were sent
InEmissionOrder(rs) ==
    \A i, j \in DOMAIN rs :
        i < j => PosIn(hist.emitted, rs[i].seq) < PosIn(hist.emitted, rs[j].seq)

\* the channel holds, in order, the last results sent
ChannelInOrder ==
    \A i \in DOMAIN queue :
        queue[i].result.seq = hist.emitted[Len(hist.emitted) - Len(queue) + i]

\* a drain step while not paused appends the oldest result of the channel
AppendsHead ==
    (DrainStep /\ ~app.paused) =>
        /\ hist'.delivered = Append(hist.delivered, Head(queue).result)
        /\ app'.results = LastN(Append(app.results, Head(queue).result), app.max_history)

\* C25: while not paused the consumer appends the results to the history in
\* exactly the order in which they were put on the channel, which is the
\* order of completion and not of the sequence numbers, without skipping or
\* repeating one; so the retained entries are in emission order.
C25_DeliveryOrder ==
    /\ [](ChannelInOrder /\ InEmissionOrder(hist.delivered) /\ InEmissionOrder(app.results))
    /\ [][AppendsHead]_vars

\* probe 2 completed and was sent before probe 1, and both are retained
C25_Witness ==
    /\ hist.emitted = <<2, 1>>
    /\ Len(app.results) = 2
    /\ app.results[1].seq = 2 /\ app.results[2].seq = 1
    /\ queue = <<>>

(* ------------------ properties of the scrolled viewport --------------- *)

\* what the cell (r, c) of the graph of a shows while the view is locked:
\* the stable index and the result, or None
CellOf(a, r, c) ==
    LET g == Unwrap(a.graph_area)
        idx == result_at_position(Len(a.results), a.result_base_seq, g.width, g.height,
                                  Unwrap(a.view_end_row), r, c)
    IN IF IsSome(idx)
       THEN Some([index |-> a.result_base_seq + Unwrap(idx),
                  result |-> a.results[Unwrap(idx) + 1]])
       ELSE None

ScrolledRecordStable ==
    (RecordStep /\ IsSome(app.view_end_row)) =>
        /\ app'.view_end_row = app.view_end_row
        /\ \A r \in 0..(Unwrap(app.graph_area).height - 1),
              c \in 0..(Unwrap(app.graph_area).width - 1) :
              \/ CellOf(app', r, c) = CellOf(app, r, c)
              \/ CellOf(app, r, c) = None
              \/ CellOf(app', r, c) = None

\* C26: while the view is locked to a row (view_end_row is set) and the
\* width and height are fixed, recording a result leaves view_end_row as it
\* was and every screen cell on the same stable index: a cell can go from a
\* result to nothing (the index was evicted) or from nothing to a result (the
\* index was produced), never to another result.
C26_ViewportStability == [][ScrolledRecordStable]_vars

\* locked on row 1 of a graph one cell wide, a second result was recorded
\* below the view and the cell still shows the first
C26_Witness ==
    /\ app.view_end_row = Some(1)
    /\ app.graph_area = Some([width |-> 1, height |-> 1])
    /\ Len(app.results) = 2 /\ app.result_base_seq = 0
    /\ CellOf(app, 0, 0) = Some([index |-> 0, result |-> app.results[1]])

(* --------------------- properties of the two locks -------------------- *)

\* the receiver holds the pending lock while it waits for the prev_rtt lock
\* or sends on the channel
ReceiverHoldsAcross == pendingLock = "R" /\ pcR \in {"prev", "finish", "send"}

\* the checker holds the pending lock while it waits for the prev_rtt lock
\* or sends on the channel
CheckerHoldsAcross == pendingLock = "W" /\ pcW \in {"prev", "emit", "send"}

\* the checker, after its scan, makes a remove under the same hold
CheckerSecondOperation == pendingLock = "W" /\ pcW = "loop" /\ wloc.timed_out # {}

\* C27: every hold of the pending lock by the send loop, the receiver or the
\* timeout checker covers one map operation and ends before the holder waits
\* for the prev_rtt lock, sends on the channel or waits on the socket.
C27_LockDiscipline ==
    /\ ~ReceiverHoldsAcross
    /\ ~CheckerHoldsAcross
    /\ ~CheckerSecondOperation

\* whenever a task holds the prev_rtt lock or waits for it, it holds the
\* pending lock: where both are taken, the pending lock is taken first
PendingLockFirst ==
    /\ (prevLock = "R" \/ pcR = "prev") => pendingLock = "R"
    /\ (prevLock = "W" \/ pcW = "prev") => pendingLock = "W"

\* the holder of a lock is never itself waiting for a lock another holds
HolderCanRun ==
    /\ pendingLock = "S" => pcS = "insert"
    /\ pendingLock = "R" =>
          (pcR \in {"finish", "send"} \/ (pcR = "prev" /\ prevLock = "free"))
    /\ pendingLock = "W" =>
          (pcW \in {"loop", "emit", "send"} \/ (pcW = "prev" /\ prevLock = "free"))
    /\ prevLock = "R" => pcR = "finish"
    /\ prevLock = "W" => pcW = "emit"

\* C28: the send loop, the receiver and the timeout checker never deadlock
\* on the pending lock and the prev_rtt lock: where both are taken the
\* pending lock is taken first, and under fair scheduling a task that waits
\* for either lock eventually gets it.
C28_DeadlockFreedom ==
    /\ [](PendingLockFirst /\ HolderCanRun)
    /\ (pcS = "lock") ~> (pcS = "insert")
    /\ (pcR = "lock") ~> (pcR \in {"prev", "recv"})
    /\ (pcR = "prev") ~> (pcR = "finish")
    /\ (pcW = "lock") ~> (pcW = "loop")
    /\ (pcW = "prev") ~> (pcW = "emit")

\* the send loop waits for the pending lock while the receiver holds it and
\* waits for the prev_rtt lock
C28_Witness ==
    /\ pcS = "lock" /\ pendingLock = "R" /\ pcR = "prev"
    /\ pcW = "lock"

(* ---------------------- properties of the tick loops ------------------ *)

\* the sequence numbers of the ICMP probes dispatched so far: those in
\* flight or waiting to be sent, and those completed
IcmpDispatched == DOMAIN sess[1].probes \cup {hist[i].seq : i \in DOMAIN hist}

\* the sequence numbers the UDP send loop has put in the pending table so
\* far: those still in it, those taken out and about to be reported, and
\* those reported
UdpInserted ==
    DOMAIN pending \cup {chan[i].seq : i \in DOMAIN chan}
        \cup (IF pcR \in {"prev", "finish", "send"} THEN {rloc.seq} ELSE {})
        \cup (IF pcW \in {"prev", "emit", "send"} THEN {wloc.cur} ELSE {})

ConsecutiveFromOne ==
    /\ main.mode = "Icmp" => IcmpDispatched = 1..sess[1].seq
    /\ main.mode = "UdpClient" =>
          /\ UdpInserted = 1..(IF pcS \in {"lock", "insert"} THEN seq - 1 ELSE seq)
          /\ wire \subseteq 1..seq

\* a tick that is due is dispatched whatever the probes in flight
TickNeverWaits ==
    /\ (main.mode = "Icmp" /\ sess[1].seq < MaxProbes) => ENABLED JitterIcmpTick
    /\ (main.mode = "UdpClient" /\ pcS = "tick" /\ sendTimer = 0 /\ seq < MaxSeq)
          => ENABLED STick

\* a tick adds one to the sequence number and nothing else changes it
OneMorePerTick ==
    /\ sess'[1].seq # sess[1].seq =>
          /\ sess'[1].seq = sess[1].seq + 1
          /\ DOMAIN sess'[1].probes = DOMAIN sess[1].probes \cup {sess[1].seq + 1}
    /\ seq' # seq => seq' = seq + 1

\* C29: in both pingers the k-th tick of a session sends the probe with
\* sequence number k, from 1 and one more per tick, and the tick loop does
\* not wait for the outcome of an earlier probe: a tick is dispatched
\* however many probes are in flight, so several can be outstanding.
C29_TimerDrivenSequencing ==
    /\ [](ConsecutiveFromOne /\ TickNeverWaits)
    /\ [][OneMorePerTick]_vars

\* three ICMP probes in flight at once
C29_Witness ==
    /\ main.mode = "Icmp"
    /\ sess[1].seq = 3
    /\ \A n \in 1..3 : n \in DOMAIN sess[1].probes /\ sess[1].probes[n] = None

(* --------------------- properties of the ICMP probes ------------------ *)

\* how many results of the channel carry the sequence number n
Emitted(n) == Cardinality({i \in DOMAIN queue : queue[i].result.seq = n})

\* every probe dispatched is in flight or waiting to send, or has sent one
\* result; none is lost and none reports twice
OneResultEach ==
    \A n \in 1..sess[1].seq :
        /\ Emitted(n) + (IF n \in DOMAIN sess[1].probes THEN 1 ELSE 0) = 1
        /\ (n \in DOMAIN sess[1].probes /\ IsSome(sess[1].probes[n]))
              => Unwrap(sess[1].probes[n]).seq = n

\* the completion of a probe: a reply gives a success and puts its rtt in the
\* prev_rtt slot, reading the old value in the same step; anything else gives
\* a timeout and empties the slot
CompletionStep ==
    Len(hist') = Len(hist) + 1 =>
        LET r == hist'[Len(hist')]
        IN IF IsSome(r.rtt)
           THEN /\ sess'[1].prev_rtt = r.rtt
                /\ r.jitter = IF IsSome(sess[1].prev_rtt)
                               THEN Some(AbsDiff(Unwrap(r.rtt), Unwrap(sess[1].prev_rtt)))
                               ELSE None
           ELSE sess'[1].prev_rtt = None /\ r.jitter = None

\* C30: every ICMP probe dispatched (and not aborted) emits exactly one
\* result with its own sequence number, a success when the echo call returns
\* a reply and a timeout otherwise; a timeout empties the prev_rtt slot and a
\* success replaces it with its own rtt in one atomic read-and-replace.
C30_IcmpProbeOutcome ==
    /\ []OneResultEach
    /\ [][CompletionStep]_vars
    /\ \A n \in 1..MaxProbes : (sess[1].seq >= n) ~> (Emitted(n) = 1)

\* probe 2 timed out after probe 1 succeeded: the slot is empty, both sent
C30_Witness ==
    /\ Len(hist) = 2
    /\ hist[1].seq = 1 /\ hist[1].rtt = Some(3)
    /\ hist[2].seq = 2 /\ hist[2].rtt = None
    /\ sess[1].prev_rtt = None
    /\ Emitted(1) = 1 /\ Emitted(2) = 1

(* ------------------ properties of the UDP error paths ----------------- *)

\* the socket send of probe n returned and put nothing on the wire
FailedSend(n) == n \in 1..seq /\ n \notin wire /\ (n < seq \/ pcS = "tick")

\* the step that ends socket.send: the loop goes back to the ticker and the
\* pending table is as it was, whether the send failed or not
SendStepKeeps ==
    (pcS = "send" /\ pcS' # "send") => (pcS' = "tick" /\ pending' = pending)

\* a receive that gave no datagram to process: nothing is emitted, neither
\* the pending table nor the jitter slot changes, the loop is at recv again
RecvErrorStep ==
    (pcR = "recv" /\ pcR' = "recv" /\ rloc' # rloc)
        => UNCHANGED <<pending, prev_rtt, chan, pendingLock, prevLock>>

\* every datagram the receiver processes echoes a packet that was transmitted
OnlyEchoes == pcR \in {"lock", "prev", "finish", "send"} => rloc.seq \in wire

TimeoutOnChan(n) == \E i \in DOMAIN chan : chan[i].seq = n /\ chan[i].rtt = None

\* a probe whose send failed is in the pending table, in the checker's hand or
\* reported as a timeout
HeldForSweep(n) ==
    \/ n \in DOMAIN pending
    \/ pcW \in {"prev", "emit", "send"} /\ wloc.cur = n
    \/ TimeoutOnChan(n)

\* C31: a failed socket send does not end the send loop and leaves the pending
\* entry of the probe in place, so that the sweep later reports the probe as a
\* timeout; a socket receive error emits nothing, changes neither the pending
\* table nor the jitter slot and does not end the receiver loop.
C31_TransportErrors ==
    /\ [][SendStepKeeps]_vars
    /\ [][RecvErrorStep]_vars
    /\ []OnlyEchoes =>
          \A n \in 1..MaxSeq :
              /\ [](FailedSend(n) => HeldForSweep(n))
              /\ FailedSend(n) ~> TimeoutOnChan(n)

\* the send of probe 1 failed, the loop went on to probe 2, and the sweep
\* has reported probe 1 as a timeout
C31_Witness ==
    /\ seq = 2 /\ 1 \notin wire
    /\ TimeoutOnChan(1)
    /\ rloc.last = "none"

(* --------------- the order of insertion and transmission -------------- *)

\* the entry of probe n has been inserted: it is in the table, in the hand of
\* the task that removed it, or its result is on the channel
EntryInserted(n) ==
    \/ n \in DOMAIN pending
    \/ pcR \in {"prev", "finish", "send"} /\ rloc.seq = n
    \/ pcW \in {"prev", "emit", "send"} /\ wloc.cur = n
    \/ \E i \in DOMAIN chan : chan[i].seq = n

\* a packet goes on the wire from the send statement only, after the block
\* that inserts its entry and drops the guard
TransmitStep ==
    wire' # wire =>
        /\ pcS = "send" /\ pendingLock # "S"
        /\ wire' = wire \cup {seq}
        /\ EntryInserted(seq)

\* the receiver finds no entry for a reply and drops it: the probe was
\* resolved before, its result is on the channel
ReplyDropStep ==
    (pcR = "lock" /\ pcR' = "recv" /\ rloc.seq \in wire)
        => \E i \in DOMAIN chan : chan[i].seq = rloc.seq

\* C32: the send loop inserts the pending entry of n, and releases the lock,
\* before it transmits the packet of n, so the receiver never processes a
\* reply to n before the entry exists; a reply is dropped for a missing entry
\* only if n was already resolved by an earlier reply or by the sweep.
C32_InsertBeforeTransmit ==
    /\ [](\A n \in wire : EntryInserted(n))
    /\ [][TransmitStep]_vars
    /\ [][ReplyDropStep]_vars

\* a second reply to probe 1 was dropped after the first one was reported
C32_Witness ==
    /\ 1 \in wire /\ rloc.seq = 1 /\ rloc.last = "dropped_resolved"
    /\ pcR = "recv"
    /\ \E i \in DOMAIN chan : chan[i].seq = 1 /\ IsSome(chan[i].rtt)

(* ------------- the jitter of the UDP client and its channel ----------- *)

\* from the removal of an entry to the send of its result the task that
\* removed it holds the pending lock, so the other task does neither
UnderPendingLock ==
    /\ pcR \in {"prev", "finish", "send"} => pendingLock = "R"
    /\ pcW \in {"prev", "emit", "send"} => pendingLock = "W"
    /\ ~(pcR \in {"prev", "finish", "send"} /\ pcW \in {"loop", "prev", "emit", "send"})

\* when no task is between its slot update and its send, the slot holds the
\* rtt of the last result on the channel
SlotFollowsChannel ==
    (pcR # "send" /\ pcW # "send") =>
        prev_rtt = IF chan = <<>> THEN None ELSE chan[Len(chan)].rtt

\* C33: under every interleaving of the send loop, the receiver and the
\* timeout checker, a success on the channel of the UDP client has no jitter
\* if it is the first result or the result right before it on the channel is
\* a timeout, and otherwise |its rtt - the rtt of the result right before it|:
\* the removal from the pending table, the update of the jitter slot and the
\* send on the channel are one step under the pending lock.
C33_UdpJitterChannelOrder ==
    /\ JitterFollows(chan)
    /\ UnderPendingLock
    /\ SlotFollowsChannel

\* the reply to probe 2 was reported before the reply to probe 1, which
\* carries the difference from it
C33_Witness ==
    /\ Len(chan) = 2
    /\ chan[1].seq = 2 /\ IsSome(chan[1].rtt) /\ chan[1].jitter = None
    /\ chan[2].seq = 1 /\ IsSome(chan[2].rtt)
    /\ chan[2].jitter = Some(AbsDiff(Unwrap(chan[2].rtt), Unwrap(chan[1].rtt)))
    /\ Unwrap(chan[2].rtt) # Unwrap(chan[1].rtt)

(* ------------------ properties of the counters of App ----------------- *)

\* C34: in every reachable state of the consumer, after any sequence of
\* record_result, clear_all_data, pause toggles, scrolls and settings changes,
\* stats.total_sent = result_base_seq + results.len().
C34_CounterHistoryAgreement ==
    app.stats.total_sent = app.result_base_seq + Len(app.results)

\* two results recorded after the history was cut to one: one evicted, one
\* retained
C34_Witness ==
    /\ app.stats.total_sent = 2
    /\ app.result_base_seq = 1 /\ Len(app.results) = 1
    /\ app.max_history = 1 /\ app.config.buffer_mb = 1 /\ ~hist.kfixed

(* --------------- the sequence numbers kept in the history ------------- *)

\* C35: in every reachable state, also after a session restarted by a change
\* of the interval, no two results retained in the history carry the same
\* sequence number.
C35_SequenceUniqueness ==
    \A i, j \in DOMAIN app.results :
        i # j => app.results[i].seq # app.results[j].seq

(* ------------------- the target shown and the target probed ----------- *)

\* the restart after a target change whose name did not resolve is over
FailedChangeDone == main.pc = "event" /\ main.resolve = "err"

\* C36: after a target change at run time whose host name fails to resolve,
\* the host held in the configuration of the application (shown in the
\* header) names the target the running pinger probes, whatever successful
\* target changes came before.
C36_TargetConsistency ==
    (FailedChangeDone /\ IsSome(main.pinger_handle)) =>
        app.config.host = main.resolved_ip

(* -------------------- properties of the settings dialog --------------- *)

\* the temporary values of the dialog are the active ones
TemporaryAreActive(a) ==
    /\ a.settings_target = (IF IsSome(a.config.host) THEN Unwrap(a.config.host) ELSE "")
    /\ a.settings_interval = a.config.interval
    /\ a.settings_buffer_mb = a.config.buffer_mb

\* the dialog opens with the active values
OpenInitialises == (~app.settings_open /\ app'.settings_open) => TemporaryAreActive(app')

\* a confirm made while the temporary values are the active ones changes
\* neither the configuration nor the history bound, and asks for no restart
ConfirmWithoutEdits ==
    (app.settings_open /\ ~app'.settings_open /\ TemporaryAreActive(app))
        => /\ app'.config = app.config
           /\ app'.max_history = app.max_history
           /\ app'.needs_pinger_restart = app.needs_pinger_restart

\* C37: open_settings initialises every temporary value (target, interval,
\* scale, colour scheme, hide-cursor, buffer size) from the active values, so
\* opening the dialog and confirming without edits changes nothing, and edits
\* made in a dialog that was cancelled are never applied by a later confirm.
C37_SettingsDialog == [][OpenInitialises /\ ConfirmWithoutEdits]_vars

(* ------------------------ properties of the popup --------------------- *)

\* the result the popup renders: results.get(popup.result_idx)
PopupShows(a) ==
    IF IsSome(a.popup) /\ Unwrap(a.popup).result_idx < Len(a.results)
    THEN Some(a.results[Unwrap(a.popup).result_idx + 1])
    ELSE None

\* while the popup stays open it shows the same result or nothing
PopupKeepsResult ==
    (IsSome(app.popup) /\ app'.popup = app.popup)
        => (PopupShows(app') = PopupShows(app) \/ PopupShows(app') = None)

\* C38: a popup opened on a ping result refers to it by its stable sequence
\* number, not its ring position: while the popup stays open and further
\* results are recorded and old ones evicted, it shows the same result or
\* nothing, never a different result.
C38_PopupIdentity == [][PopupKeepsResult]_vars

(* ------------------- properties of the scroll position ---------------- *)

AppWidth == Unwrap(app.graph_area).width

\* view_end_row is unset, or a row between 1 and total_rows
ScrollPositionInRange ==
    IsSome(app.view_end_row) =>
        (1 <= Unwrap(app.view_end_row)
            /\ Unwrap(app.view_end_row) <= total_rows(app, AppWidth))

\* a scroll_down by rows from a scrolled view goes live exactly when the new
\* end row reaches or passes total_rows; from the live view it changes nothing
ScrollDownStep ==
    \A rows \in ScrollRows :
        app' = scroll_down(app, rows) =>
            IF IsSome(app.view_end_row)
            THEN LET new_end == Unwrap(app.view_end_row) + rows
                 IN IF new_end >= total_rows(app, AppWidth)
                    THEN app'.view_end_row = None
                    ELSE app'.view_end_row = Some(new_end)
            ELSE app' = app

\* C39: with a fixed graph width and max_history >= 1, after any sequence of
\* scroll_up, scroll_down, jump_to_live, toggle_pause, record_result and
\* clear_all_data, view_end_row is unset (live mode) or a row r with
\* 1 <= r <= total_rows(width); scroll_down goes live exactly when the new end
\* row reaches or passes total_rows, and in live mode it changes nothing.
C39_ScrollPosition ==
    /\ [](app.max_history >= 1 /\ ScrollPositionInRange)
    /\ [][(~app.settings_open /\ ViewScrollDown) => ScrollDownStep]_vars

\* scrolled to the second of three rows, the first of them evicted
C39_Witness ==
    /\ app.view_end_row = Some(2)
    /\ total_rows(app, AppWidth) = 3
    /\ AppWidth = 1 /\ app.result_base_seq = 1 /\ Len(app.results) = 2

(* ------------- the server and the client accept the same bytes ---------- *)

\* the bytes the receive call delivered: buf[..len]
Received == SubSeq(call.buf, 1, call.len)

\* C40: whenever the server's loop hands a buffer and a received length to
\* handle_packet, a datagram is sent back exactly when decode_packet returns
\* a value for the received bytes buf[..len] (and decode_packet does not
\* panic), and the datagram sent back is itself one that decode_packet
\* returns a value for.
C40_AcceptanceAgreement ==
    (call.op = "recv" /\ call.ok) =>
        /\ ~decode_packet(Received).panic
        /\ IsSome(call.sent) <=> IsSome(decode_packet(Received).value)
        /\ IsSome(call.sent) =>
              /\ ~decode_packet(Unwrap(call.sent).bytes).panic
              /\ IsSome(decode_packet(Unwrap(call.sent).bytes).value)

\* a datagram too short is received into a buffer that still starts with the
\* magic of an earlier datagram
C40_WitnessStale ==
    /\ call.op = "recv" /\ call.ok
    /\ call.len = 3 /\ SubSeq(call.buf, 1, 4) = MAGIC
    /\ call.sent = None
    /\ decode_packet(Received).value = None

\* a datagram of 20 bytes with the magic is echoed from a buffer whose later
\* bytes are those of an earlier datagram
C40_Witness ==
    /\ call.op = "recv" /\ call.ok
    /\ call.len = 20 /\ call.buf[21] # 0
    /\ IsSome(call.sent) /\ Unwrap(call.sent).bytes = Received
    /\ IsSome(decode_packet(Received).value)

====
